---------------------------- MODULE Spec2Model ----------------------------
(***************************************************************************)
(* A model of browser-use-ts: the bounded message history                  *)
(* (agent/message_manager), and the agent step engine (agent/service)      *)
(* that drives it.                                                         *)
(*                                                                         *)
(* Strings are modelled by what the code reads of them: a message content  *)
(* by its length in characters (and, for list content, its text and image  *)
(* items), an error text by the sequence of its lines (what split('\n')    *)
(* returns).                                                               *)
(***************************************************************************)
EXTENDS Integers, Sequences, FiniteSets, TLC

(***************************************************************************)
(* Program constants.                                                      *)
(***************************************************************************)
CharsPerToken == 3
ImageTokens == 800
ToolCallBase == 50
TokenDecrement == 500
ExampleArgsLen == 222
ExampleOutputLen == 15
BrowserStartedLen == 15
MemoryStartLen == 38
TaskFrameLen == 172
FilePathsLen == 33
DirectiveLen == 542
JsonWrapLen == 27
ResultPrefixLen == 15
ErrorPrefixLen == 14

(***************************************************************************)
(* Bounds of the model.                                                    *)
(***************************************************************************)
MaxOps == 4

\* Lengths (characters) the model draws message texts from.
SystemLenChoices == {300, 2700}
TaskLen == 28
LenChoices == {0, 150, 3000}
EscChoices == {12}
BudgetChoices == {400, 1000}
TrimChoices == {0, 120, 1000}

(***************************************************************************)
(* Messages.  role is the langchain class of the message, kind what the    *)
(* program put into it.  list: the content is an array of items (texts     *)
(* text items of total length len, of which esc characters are escaped by  *)
(* JSON.stringify, and imgs image_url items); otherwise the content is a   *)
(* string of length len.  calls: an AIMessage carrying one tool call whose *)
(* serialized arguments are argLen characters long.  tokens is             *)
(* metadata.tokens.  id tells messages of the agent's history apart, refs  *)
(* is the set of result and error lines the content shows.                 *)
(***************************************************************************)
Roles == {"system", "human", "ai", "tool"}

Message(role, kind, len) ==
    [role |-> role, kind |-> kind, list |-> FALSE, len |-> len, esc |-> 0,
     texts |-> 0, imgs |-> 0, calls |-> FALSE, argLen |-> 0, tokens |-> 0,
     id |-> 0, refs |-> {}]

\* new HumanMessage({content: [{type: 'text', ...}, {type: 'image_url', ...}]})
VisionMessage(kind, len, esc) ==
    [Message("human", kind, len) EXCEPT !.list = TRUE, !.esc = esc,
                                        !.texts = 1, !.imgs = 1]

\* new AIMessage({content: '', tool_calls: [...]})
ToolCallMessage(kind, argLen) ==
    [Message("ai", kind, 0) EXCEPT !.calls = TRUE, !.argLen = argLen]

CeilDiv(a, b) == (a + b - 1) \div b

\* MessageManager._countTokens
CountTokens(m) ==
    CeilDiv(m.len, CharsPerToken)
    + m.imgs * ImageTokens
    + (IF m.role = "ai" /\ m.calls
          THEN ToolCallBase + CeilDiv(m.argLen, CharsPerToken) ELSE 0)

(***************************************************************************)
(* MessageHistory (message_manager/views.ts): a history h is the record    *)
(* [messages, currentTokens].                                              *)
(***************************************************************************)
EmptyHistory == [messages |-> << >>, currentTokens |-> 0]

\* Array.prototype.splice(position, 0, x): the 0-based index x is put at.
SpliceStart(n, position) ==
    IF position < 0 THEN (IF n + position < 0 THEN 0 ELSE n + position)
    ELSE IF position > n THEN n ELSE position

InsertAt(s, start, x) ==
    SubSeq(s, 1, start) \o <<x>> \o SubSeq(s, start + 1, Len(s))

RemoveAt(s, i) == SubSeq(s, 1, i - 1) \o SubSeq(s, i + 1, Len(s))

\* position: null is the empty sequence, a number p the sequence <<p>>.
NoPosition == << >>

\* MessageHistory.addMessage with the token update dropped (a bug the
\* accounting claims must detect).
AddMessageNoCount(h, m, position) ==
    [h EXCEPT !.messages =
        IF position = NoPosition THEN Append(h.messages, m)
        ELSE InsertAt(h.messages, SpliceStart(Len(h.messages), position[1]), m)]

\* MessageHistory.addMessage
AddMessage(h, m, position) ==
    [messages |->
        IF position = NoPosition THEN Append(h.messages, m)
        ELSE InsertAt(h.messages, SpliceStart(Len(h.messages), position[1]), m),
     currentTokens |-> h.currentTokens + m.tokens]

\* MessageManager.addMessageWithTokens
AddMessageWithTokens(h, m, position) ==
    AddMessage(h, [m EXCEPT !.tokens = CountTokens(m)], position)

NonSystem(h) == {i \in 1..Len(h.messages) : h.messages[i].role # "system"}

Min(S) == CHOOSE x \in S : \A y \in S : x <= y
Max(S) == CHOOSE x \in S : \A y \in S : x >= y

\* removeOldestMessage taking the oldest message whatever its role.
RemoveOldestAnyRole(h) ==
    IF h.messages = << >> THEN h
    ELSE [messages |-> Tail(h.messages),
          currentTokens |-> h.currentTokens - Head(h.messages).tokens]

\* MessageHistory.removeOldestMessage
RemoveOldestMessage(h) ==
    IF NonSystem(h) = {} THEN h
    ELSE LET i == Min(NonSystem(h)) IN
         [messages |-> RemoveAt(h.messages, i),
          currentTokens |-> h.currentTokens - h.messages[i].tokens]

\* MessageHistory.removeMessageAtIndex (index is 0-based)
RemoveMessageAtIndex(h, index) ==
    IF index >= 0 /\ index < Len(h.messages)
    THEN [messages |-> RemoveAt(h.messages, index + 1),
          currentTokens |-> h.currentTokens - h.messages[index + 1].tokens]
    ELSE h

\* MessageHistory.removeLastStateMessage
HistoryRemoveLastStateMessage(h) ==
    IF Len(h.messages) > 2 /\ h.messages[Len(h.messages)].role = "human"
    THEN [messages |-> SubSeq(h.messages, 1, Len(h.messages) - 1),
          currentTokens |->
             IF h.messages[Len(h.messages)].tokens # 0
             THEN h.currentTokens - h.messages[Len(h.messages)].tokens
             ELSE h.currentTokens]
    ELSE h

Humans(h) == {i \in 1..Len(h.messages) : h.messages[i].role = "human"}

\* MessageManager.removeLastStateMessage
RemoveLastStateMessage(h) ==
    IF Humans(h) = {} THEN h
    ELSE RemoveMessageAtIndex(h, Max(Humans(h)) - 1)

\* MessageManager.trimMessages: the history the loop ends with, or hung when
\* the loop condition stays true and removeOldestMessage removes nothing.
RECURSIVE TrimMessages(_, _)
TrimMessages(h, maxTokens) ==
    IF h.currentTokens <= maxTokens THEN [h |-> h, hung |-> FALSE]
    ELSE IF NonSystem(h) = {} THEN [h |-> h, hung |-> TRUE]
    ELSE TrimMessages(RemoveOldestMessage(h), maxTokens)


\* The content cutMessages truncates: the string itself, or JSON.stringify
\* of the item list that is left.
ContentLen(m) ==
    IF m.list THEN JsonWrapLen + m.len + m.esc ELSE m.len

\* cutMessages without its first part
KeepImages(m) == m

\* cutMessages, first part: every image_url item of the last message is
\* removed; an item list left empty becomes the (empty) string.
StripImages(m) ==
    IF ~m.list THEN m
    ELSE [m EXCEPT !.imgs = 0,
                   !.tokens = m.tokens - m.imgs * ImageTokens,
                   !.list = (m.texts > 0),
                   !.len = IF m.texts > 0 THEN m.len ELSE 0,
                   !.esc = IF m.texts > 0 THEN m.esc ELSE 0]

\* proportionToRemove > 0.99, for overflow diff > 0 and the message's tokens
\* (a division by 0 gives Infinity).
OverProportion(diff, tokens) ==
    tokens = 0 \/ 100 * diff > 99 * tokens

\* Math.floor(content.length * proportionToRemove).  The product is computed
\* in floating point: where it is an integer q in exact arithmetic the
\* rounded product may lie just below q, so that floor gives q - 1 (round is
\* 1 for that outcome, 0 otherwise).
CharactersToRemove(contentLen, diff, tokens, round) ==
    LET q == (contentLen * diff) \div tokens IN
    IF round = 1 /\ (contentLen * diff) % tokens = 0 /\ q > 0
    THEN q - 1 ELSE q

\* MessageManager.cutMessages: the history it leaves, and whether it threw
\* 'Max token limit reached'.
CutMessages(h, maxInputTokens, round) ==
    LET n == Len(h.messages) IN
    IF h.currentTokens - maxInputTokens <= 0 \/ n = 0
    THEN [h |-> h, threw |-> FALSE, cut |-> FALSE]
    ELSE
    LET last == h.messages[n]
        msg == StripImages(last)
        h1 == [messages |-> [h.messages EXCEPT ![n] = msg],
               currentTokens |-> h.currentTokens - (last.tokens - msg.tokens)]
        updatedDiff == h1.currentTokens - maxInputTokens
    IN
    IF updatedDiff <= 0 THEN [h |-> h1, threw |-> FALSE, cut |-> FALSE]
    ELSE IF OverProportion(updatedDiff, msg.tokens)
    THEN [h |-> h1, threw |-> TRUE, cut |-> FALSE]
    ELSE
    LET content == ContentLen(msg)
        remove == CharactersToRemove(content, updatedDiff, msg.tokens, round)
        newMsg == Message("human", "truncated", content - remove)
    IN [h |-> AddMessageWithTokens(RemoveLastStateMessage(h1), newMsg,
                                   NoPosition),
        threw |-> FALSE, cut |-> TRUE]

(***************************************************************************)
(* MessageManager._initMessages.  cfg tells which optional messages the    *)
(* settings ask for.                                                       *)
(***************************************************************************)
RECURSIVE AddAll(_, _)
AddAll(h, ms) ==
    IF ms = << >> THEN h
    ELSE AddAll(AddMessageWithTokens(h, Head(ms), NoPosition), Tail(ms))

InitMessages(cfg) ==
    AddAll(EmptyHistory,
        << Message("system", "system", cfg.systemLen) >>
        \o (IF cfg.context
              THEN << Message("human", "context", cfg.contextLen) >>
              ELSE << >>)
        \o << Message("human", "task", TaskFrameLen + TaskLen) >>
        \o (IF cfg.sensitive
              THEN << Message("human", "placeholders", cfg.sensitiveLen) >>
              ELSE << >>)
        \o << Message("human", "example", ExampleOutputLen),
              ToolCallMessage("exampleCall", ExampleArgsLen),
              Message("tool", "toolack", BrowserStartedLen),
              Message("human", "memoryStart", MemoryStartLen) >>
        \o (IF cfg.filePaths
              THEN << Message("human", "filePaths", FilePathsLen) >>
              ELSE << >>))

Configs ==
    [systemLen : SystemLenChoices, context : {FALSE}, contextLen : {0},
     sensitive : {FALSE}, sensitiveLen : {0}, filePaths : BOOLEAN]

\* MessageManager.addModelOutput: the tool call and its empty tool response.
AddModelOutput(h, argLen) ==
    AddMessageWithTokens(
        AddMessageWithTokens(h, ToolCallMessage("output", argLen), NoPosition),
        Message("tool", "toolack", 0), NoPosition)

(***************************************************************************)
(* State.  history and maxInputTokens are the MessageManager's             *)
(* state.history and settings.maxInputTokens.  ops counts the calls made   *)
(* on the manager through its interface and lastOp records the last one:   *)
(* its name, whether it threw, and whether it never returned.              *)
(***************************************************************************)
VARIABLES history, maxInputTokens, ops, lastOp

(***************************************************************************)
(* Agent state.  settings: the agent's settings.  pc: where run() is:      *)
(* "idle" (no run in progress), "loop" (at the head of the step loop),     *)
(* "getState", "llm", "act" (a step awaiting the page state, the model's   *)
(* answer, the action actions[actIndex]).  stepIndex: the loop index i; entries: the        *)
(* AgentHistoryList; runResult: how the last run() ended.  cur describes   *)
(* the step in progress and fin the step that ended last.                  *)
(***************************************************************************)
VARIABLES settings, pc, stepIndex, maxSteps, nSteps, consecutiveFailures, lastResult,
          entries, paused, stopped, runResult, page, cachedPathHashes,
          cachedSelectorMap, actions, actIndex, results, runs, steps, cur,
          fin,
          outputSchema, inputMessages

agentVars == <<settings, pc, stepIndex, maxSteps, nSteps, consecutiveFailures,
               lastResult, entries, paused, stopped, runResult, page,
               cachedPathHashes, cachedSelectorMap, actions, actIndex, results,
               runs, steps, cur, fin, outputSchema, inputMessages>>



mmVars == <<history, maxInputTokens, ops, lastOp>>

(***************************************************************************)
(* Sensitive data.  sensitiveData: the map from placeholder names to       *)
(* secret values the agent was given.  outputs: the model outputs          *)
(* (AgentOutput objects) created so far, each by the text parameter of its *)
(* input_text action; a tool-call message of secretMessages holds a        *)
(* reference to one of them (its position in outputs), not a copy.         *)
(* secretMessages: the message history.  handed: the text parameters the   *)
(* input_text handler was called with.  secretResult: the handler's last   *)
(* result.  secretPc: "answer" (the model is asked next) or "act" (the     *)
(* answer is committed to the history and its action is executed next).    *)
(***************************************************************************)
VARIABLES sensitiveData, outputs, secretMessages, handed, secretResult,
          secretPc

secretVars == <<sensitiveData, outputs, secretMessages, handed, secretResult,
                secretPc>>

\* The page snapshot: the result of the page script, the tree and the
\* selector map constructDomTree builds from it, and the tree's text.
VARIABLES evalPage, nodeMap, rootElement, selectorMap, includeAttributes,
          formattedText, domPc

domVars == <<evalPage, nodeMap, rootElement, selectorMap, includeAttributes,
             formattedText, domPc>>

\* One call of a function of the program, and what it returned.
VARIABLES call, returned

callVars == <<call, returned>>

(***************************************************************************)
(* BrowserContext.getState.  currentState: this.currentState, << >> for    *)
(* undefined, else <<snapshot>>.  sessionCachedState: session.cachedState. *)
(* getStateCalls: the number of calls so far.  getStateResult: << >>, or   *)
(* <<r>> with what the last call returned or threw.  ctxPc: idle, or       *)
(* updating while _updateState is awaited.                                 *)
(***************************************************************************)
VARIABLES currentState, sessionCachedState, getStateCalls, getStateResult,
          ctxPc

ctxVars == <<currentState, sessionCachedState, getStateCalls, getStateResult,
             ctxPc>>

(***************************************************************************)
(* BrowserContext._waitForStableNetwork.  Times are in units of the 100 ms *)
(* between two checks.  pendingRequests: the tracked requests.  listening: *)
(* the request and response listeners are attached.  nextCheck: when the   *)
(* timer of checkNetworkIdle is due.  netPc: idle, waiting or resolved.    *)
(***************************************************************************)
VARIABLES now, startTime, lastActivity, pendingRequests, answered, listening,
          nextCheck, netPc

netVars == <<now, startTime, lastActivity, pendingRequests, answered,
             listening, nextCheck, netPc>>

(***************************************************************************)
(* The MessageManagerState a MessageManager is constructed over.           *)
(* managerState: the state object, its history and toolId.  constructed:   *)
(* << >>, or <<r>> with the state the last constructor call was given and  *)
(* the state it left.  stateCalls counts the calls made on the object.     *)
(***************************************************************************)
VARIABLES managerState, constructed, stateCalls

stateVars == <<managerState, constructed, stateCalls>>

otherVars == <<secretVars, domVars, callVars, ctxVars, netVars, stateVars>>

vars == <<mmVars, agentVars, otherVars>>

\* The parts of the program a specification leaves out are not running.
SecretsIdle ==
    /\ sensitiveData = << >>
    /\ outputs = << >>
    /\ secretMessages = << >>
    /\ handed = << >>
    /\ secretResult = << >>
    /\ secretPc = "idle"

DomIdle ==
    /\ evalPage = << >>
    /\ nodeMap = << >>
    /\ rootElement = << >>
    /\ selectorMap = << >>
    /\ includeAttributes = << >>
    /\ formattedText = << >>
    /\ domPc = "idle"

CallsIdle ==
    /\ call = << >>
    /\ returned = << >>

CtxIdle ==
    /\ currentState = << >>
    /\ sessionCachedState = << >>
    /\ getStateCalls = 0
    /\ getStateResult = << >>
    /\ ctxPc = "idle"

NetIdle ==
    /\ now = 0
    /\ startTime = 0
    /\ lastActivity = 0
    /\ pendingRequests = {}
    /\ answered = {}
    /\ listening = FALSE
    /\ nextCheck = 0
    /\ netPc = "idle"

BrowserIdle == CtxIdle /\ NetIdle

\* new MessageManagerState(): an empty history, toolId = 1
NewState == [history |-> EmptyHistory, toolId |-> 1]

StateIdle ==
    /\ managerState = NewState
    /\ constructed = << >>
    /\ stateCalls = 0

OthersIdle ==
    SecretsIdle /\ DomIdle /\ CallsIdle /\ BrowserIdle /\ StateIdle

(***************************************************************************)
(* The agent (agent/service).                                              *)
(*                                                                         *)
(* Action results.  error is the error text as the sequence of its lines   *)
(* (<< >>: null or the empty string), content the extracted content ("":   *)
(* none), mem the includeInMemory flag.                                    *)
(***************************************************************************)
ActionResult(isDone, content, error, mem) ==
    [isDone |-> isDone, content |-> content, error |-> error, mem |-> mem]

\* click_element: the element was clicked.
Clicked == ActionResult(FALSE, "Clicked button", << >>, TRUE)
\* click_element: _clickElementNode threw.
NotClickable ==
    ActionResult(FALSE, "Element not clickable", <<"Error: not clickable">>,
                 FALSE)
\* click_element: the element opens a file upload dialog; the click
\* started a download.
FileUploader ==
    ActionResult(TRUE, "has an element which opens file upload dialog",
                 << >>, TRUE)
Downloaded == ActionResult(TRUE, "Downloaded file", << >>, TRUE)
\* done
DoneResult == ActionResult(TRUE, "task text", << >>, TRUE)
\* go_to_url: the navigation succeeded; page.goto threw.
Navigated == ActionResult(FALSE, "Navigated", << >>, TRUE)
NavigationFailed ==
    ActionResult(FALSE, "Navigation may have encountered issues",
                 <<"Error: net::ERR_ABORTED">>, TRUE)
\* scroll_down
Scrolled == ActionResult(FALSE, "Scrolled down the page", << >>, TRUE)

\* The results a handler call can return.
HandlerOutcomes(name) ==
    CASE name = "click_element" ->
             {Clicked, NotClickable, FileUploader, Downloaded}
      [] name = "done" -> {DoneResult}
      [] name = "go_to_url" -> {Navigated, NavigationFailed}
      [] name = "scroll_down" -> {Scrolled}

\* The handlers that can throw instead (click_element for an index the
\* selector map lacks, go_to_url when there is no current page).
HandlerThrows(name) == name \in {"click_element", "go_to_url"}

\* ActionModel.getIndex() !== null
HasIndex(action) == action \in {"click_element", "input_text"}

(***************************************************************************)
(* Errors: name, message and stack as lines, and the phrases the handler   *)
(* looks for that the formatted text contains.                             *)
(***************************************************************************)
Error(name, message, phrases) ==
    [name |-> name, message |-> message,
     stack |-> <<name \o ": " \o message[1], "    at frame">>,
     phrases |-> phrases]

ParseError ==
    Error("Error", <<"Could not parse response.">>, {"Could not parse response"})
ContextLengthError ==
    Error("Error", <<"400 This model's maximum context length is 128000 tokens">>,
          {"400 This model's maximum context length is 128000 tokens"})
RateLimitError == Error("RateLimitError", <<"429 too many requests">>, {})
\* a provider's quota error thrown as a plain Error (error.name = "Error")
QuotaError ==
    Error("Error", <<"429 You exceeded your current quota">>, {"quota"})
PerceptionError == Error("Error", <<"Failed to parse HTML to dictionary">>, {})
HandlerError == Error("Error", <<"Element with index 5 does not exist">>, {})
Interrupted == Error("Error", <<"Interrupted">>, {})

LLMErrors == {ParseError, ContextLengthError, RateLimitError, QuotaError}

\* AgentError.formatError(error, true)
FormatError(error) == error.message \o error.stack

Last(s) == s[Len(s)]

\* addStateMessage: the line of an error that goes into the permanent
\* 'Action error' message (a final newline removed, then the last line).
MemoryErrorLine(error) ==
    IF Len(error) >= 2 /\ Last(error) = ""
    THEN error[Len(error) - 1] ELSE Last(error)

\* AgentMessagePrompt.getUserMessage: the line of an error shown in the
\* state message.
StateErrorLine(error) == Last(error)

(***************************************************************************)
(* Bounds of the agent model.                                              *)
(***************************************************************************)
MaxRuns == 2
MaxStepsPerRun == 2
MaxTotalSteps == 2
MaxFailuresBound == 2
MaxActions == 2
StateFrameLen == 300
ElementLineLen == 30
ResultTextLen == 60
PlanLen == 150
OutputArgsLen == 240
AgentBudgetChoices == {1700}
AgentSystemLen == 2700

(***************************************************************************)
(* MessageManager.addStateMessage                                          *)
(***************************************************************************)
Tag(m, id, refs) == [m EXCEPT !.id = id, !.refs = refs]

\* The permanent messages of one memory-included result.
MemoryMessages(r, id) ==
    (IF r.content # ""
       THEN << Tag(Message("human", "result", ResultPrefixLen + ResultTextLen),
                   id, {r.content}) >>
       ELSE << >>)
    \o (IF r.error # << >>
          THEN << Tag(Message("human", "error", ErrorPrefixLen + ResultTextLen),
                      id, {MemoryErrorLine(r.error)}) >>
          ELSE << >>)

RECURSIVE FoldMemory(_, _)
FoldMemory(result, id) ==
    IF result = << >> THEN << >>
    ELSE (IF Head(result).mem THEN MemoryMessages(Head(result), id) ELSE << >>)
         \o FoldMemory(Tail(result), id)

Range(s) == {s[j] : j \in 1..Len(s)}

\* The result list the state message is built from: null (<< >>) as soon as
\* one result is memory-included.
StateResults(result) ==
    IF \E r \in Range(result) : r.mem THEN << >> ELSE result

\* AgentMessagePrompt.getUserMessage
StateMessage(elements, result, vision, id) ==
    LET len == StateFrameLen + ElementLineLen * elements
               + ResultTextLen
                 * Cardinality({j \in 1..Len(result) : result[j].content # ""})
               + ResultTextLen
                 * Cardinality({j \in 1..Len(result) : result[j].error # << >>})
        refs == {r.content : r \in {x \in Range(result) : x.content # ""}}
                \cup {StateErrorLine(r.error) :
                         r \in {x \in Range(result) : x.error # << >>}}
    IN Tag(IF vision
             THEN VisionMessage("state", len, 12 + Len(result))
             ELSE Message("human", "state", len),
           id, refs)

AddStateMessage(h, elements, result, vision, id) ==
    AddMessageWithTokens(
        AddAll(h, FoldMemory(result, id)),
        StateMessage(elements, StateResults(result), vision, id),
        NoPosition)

(***************************************************************************)
(* Branch-path hashes.  An element of a selector map is the record of the  *)
(* fields DOMService.parseNode gives a DOMElementNode; parent is << >> for *)
(* null and <<p>> for the parent element p.  A sha256 digest is modelled   *)
(* by the text it is taken of.                                             *)
(***************************************************************************)
Element(tag, xpath, index) ==
    [tagName |-> tag, xpath |-> xpath, attributes |-> << >>,
     highlightIndex |-> index, parent |-> << >>]

\* HistoryTreeProcessor._getParentBranchPath
RECURSIVE GetParentBranchPath(_)
GetParentBranchPath(e) ==
    <<e.tagName>>
    \o (IF e.parent = << >> THEN << >> ELSE GetParentBranchPath(e.parent[1]))

\* HistoryTreeProcessor._hashDomElement(e).branchPathHash
BranchPathHash(e) == GetParentBranchPath(e)

\* The set multiAct builds from a selector map:
\*   if (element.hash && element.hash.branchPathHash) add(...)
\* An element has a hash only if its record has that field.
PathHashes(map) ==
    {e.hash.branchPathHash :
        e \in {x \in map : "hash" \in DOMAIN x}}

\* The set of branch-path hashes of the elements of a selector map.
BranchPathHashes(map) == {BranchPathHash(e) : e \in map}

Button == Element("button", "/html/body/button", 0)
Link == Element("a", "/html/body/a", 1)
Pages == {{Button}, {Button, Link}}

(***************************************************************************)
(* Agent._handleStepError: what it leaves of the history, of the manager's *)
(* maxInputTokens and of consecutiveFailures, the result list it returns,  *)
(* whether it slept the retry delay, and whether it threw instead of       *)
(* returning.                                                              *)
(***************************************************************************)
ValidationNames == {"ValidationError", "TypeError", "ValueError", "Error"}
TokenLimitPhrases ==
    {"Max token limit reached",
     "400 This model's maximum context length is 128000 tokens"}
RateLimitPhrases == {"rate limit", "quota", "capacity"}
ParseHint == <<"", "Return a valid JSON object with the required fields.">>

ErrorResult(lines) == ActionResult(FALSE, "", lines, TRUE)

HandleStepError(error, h, mmMax, settingsMax, failures, round) ==
    LET errorMsg == FormatError(error)
        tokenLimit == error.name \in ValidationNames
                      /\ error.phrases \cap TokenLimitPhrases # {}
        hint == error.name \in ValidationNames /\ ~tokenLimit
                /\ "Could not parse response" \in error.phrases
        newMax == IF tokenLimit THEN settingsMax - TokenDecrement ELSE mmMax
        cut == IF tokenLimit THEN CutMessages(h, newMax, round)
               ELSE [h |-> h, threw |-> FALSE, cut |-> FALSE]
        rateLimit == error.name \notin ValidationNames
                     /\ (error.name = "RateLimitError"
                         \/ error.phrases \cap RateLimitPhrases # {})
    IN [h |-> cut.h,
        mmMax |-> newMax,
        threw |-> cut.threw,
        slept |-> rateLimit,
        failures |-> IF cut.threw THEN failures ELSE failures + 1,
        result |-> << ErrorResult(IF hint THEN errorMsg \o ParseHint
                                  ELSE errorMsg) >>]

\* The result step() leaves when it was interrupted.
PausedResult ==
    << ErrorResult(<<"The agent was paused - now continuing actions might need to be repeated">>) >>

NoStep ==
    [ord |-> 0, pre |-> << >>, failuresBefore |-> 0, nStepsBefore |-> 0,
     stateAdded |-> FALSE,
     parsed |-> FALSE, handlersReturned |-> 0, outcome |-> "none",
     lastStep |-> FALSE, checks |-> << >>, executed |-> << >>,
     slept |-> FALSE, cachedMap |-> {}, raised |-> << >>]

AgentSettings ==
    [maxFailures : 1..MaxFailuresBound, maxInputTokens : AgentBudgetChoices,
     useVision : BOOLEAN, maxActionsPerStep : {MaxActions}]

\* new AgentState()
AgentIdle ==
    /\ pc = "idle"
    /\ stepIndex = 0
    /\ maxSteps = 0
    /\ nSteps = 1
    /\ consecutiveFailures = 0
    /\ lastResult = << >>
    /\ entries = << >>
    /\ paused = FALSE
    /\ stopped = FALSE
    /\ runResult = "none"
    /\ cachedPathHashes = {}
    /\ cachedSelectorMap = {}
    /\ actions = << >>
    /\ actIndex = 0
    /\ results = << >>
    /\ runs = 0
    /\ steps = 0
    /\ cur = NoStep
    /\ fin = NoStep
    /\ outputSchema = "AgentOutput"
    /\ inputMessages = << >>


\* new Agent(task, llm, options): the manager seeded by _initMessages (the
\* agent hands it availableFilePaths || []), a fresh AgentState.
AgentInit ==
    /\ settings \in AgentSettings
    /\ history = InitMessages([systemLen |-> AgentSystemLen, context |-> FALSE,
                               contextLen |-> 0, sensitive |-> FALSE,
                               sensitiveLen |-> 0, filePaths |-> TRUE])
    /\ maxInputTokens = settings.maxInputTokens
    /\ ops = 0
    /\ lastOp = [name |-> "init", threw |-> FALSE, hung |-> FALSE,
                 cut |-> FALSE]
    /\ page = {Button}
    /\ AgentIdle
    /\ OthersIdle

\* run(): the loop's test of the failure budget.
TooManyFailuresStrict(failures, maxFailures) == failures > maxFailures

TooManyFailures(failures, maxFailures) == failures >= maxFailures

\* AgentHistoryList.isDone answering false whatever the history holds
NeverDone(es) == FALSE

\* AgentHistoryList.isDone
IsDone(es) ==
    /\ es # << >>
    /\ Last(es).result # << >>
    /\ Last(Last(es).result).isDone

\* AgentStepInfo.isLastStep
IsLastStep(stepNumber, max) == stepNumber >= max - 1

\* The head of the loop of run() for i = j: the loop ends (and run returns
\* the history), or step(new AgentStepInfo(j, maxSteps)) is called and
\* awaits browserContext.getState().
LoopHead(j, max) ==
    IF \/ j >= max
       \/ stopped \/ paused
       \/ TooManyFailures(consecutiveFailures, settings.maxFailures)
    THEN /\ pc' = "idle"
         /\ runResult' = "returned"
         /\ UNCHANGED <<stepIndex, steps, cur>>
    ELSE /\ steps < MaxTotalSteps
         /\ pc' = "getState"
         /\ stepIndex' = j
         /\ steps' = steps + 1
         /\ cur' = [NoStep EXCEPT !.ord = steps + 1,
                                  !.pre = history.messages,
                                  !.failuresBefore = consecutiveFailures,
                                  !.nStepsBefore = nSteps,
                                  !.lastStep = IsLastStep(j, max),
                                  !.outcome = "running"]
         /\ UNCHANGED runResult

\* run(maxSteps)
Run ==
    /\ UNCHANGED otherVars
    /\ pc = "idle"
    /\ runs < MaxRuns
    /\ \E ms \in 1..MaxStepsPerRun :
          /\ steps + ms <= MaxTotalSteps
          /\ maxSteps' = ms
          /\ runs' = runs + 1
          /\ LoopHead(0, ms)
    /\ UNCHANGED <<mmVars, settings, nSteps, consecutiveFailures, lastResult,
                   entries, paused, stopped, page, cachedPathHashes,
                   cachedSelectorMap, actions, actIndex, results, fin,
                   outputSchema, inputMessages>>


\* One entry of the AgentHistoryList (_makeHistoryItem).
HistoryItem(hasOutput, result, ord) ==
    [modelOutput |-> hasOutput, result |-> result, ord |-> ord]

\* The end of step(): what the try block, its catch and its finally leave.
\* outcome "success": multiAct returned; "failed": _handleStepError
\* returned; "cancelled": the Interrupted branch; "crashed": the catch
\* block threw, step() rejects and run() rethrows.
EndStep(outcome, h, mmMax, failures, lastRes, item, record) ==
    /\ history' = h
    /\ maxInputTokens' = mmMax
    /\ consecutiveFailures' = failures
    /\ lastResult' = lastRes
    /\ entries' = entries \o item
    /\ fin' = [record EXCEPT !.outcome = outcome]
    /\ cur' = NoStep
    /\ pc' = IF outcome = "crashed" THEN "idle" ELSE "afterStep"
    /\ runResult' = IF outcome = "crashed" THEN "threw" ELSE runResult
    /\ UNCHANGED <<ops, lastOp>>

\* catch (e) of step() for an error other than Interrupted.  item is the
\* entry the finally block pushes when the handler threw (result is still
\* the empty list then); otherwise the entry carries the handler's result.
Fail(error, h, hasState, hasOutput, record) ==
    \E round \in {0, 1} :
      LET r == HandleStepError(error, h, maxInputTokens,
                               settings.maxInputTokens, consecutiveFailures,
                               round)
          res == IF r.threw THEN << >> ELSE r.result
          item == IF hasState THEN << HistoryItem(hasOutput, res, record.ord) >>
                  ELSE << >>
      IN EndStep(IF r.threw THEN "crashed" ELSE "failed", r.h, r.mmMax,
                 r.failures, IF r.threw THEN lastResult ELSE r.result, item,
                 [record EXCEPT !.slept = r.slept, !.raised = error.message])

\* catch (e) of step() for Interrupted (state is never null there).
Cancel(h, hasOutput, record) ==
    EndStep("cancelled", h, maxInputTokens, consecutiveFailures, PausedResult,
            << HistoryItem(hasOutput, << >>, record.ord) >>,
            [record EXCEPT !.raised = Interrupted.message])

\* The end of the try block of step() without the reset of the counter.
SucceedKeepingFailures(h, result, record) ==
    EndStep("success", h, maxInputTokens, consecutiveFailures, result,
            << HistoryItem(TRUE, result, record.ord) >>, record)

\* The end of the try block of step().
Succeed(h, result, record) ==
    EndStep("success", h, maxInputTokens, 0, result,
            << HistoryItem(TRUE, result, record.ord) >>, record)

\* _raiseIfStoppedOrPaused never throwing
RaisesNever(callback) == FALSE

\* _raiseIfStoppedOrPaused throws; callback is what the registered
\* external status callback answers (FALSE also when none is registered).
Raises(callback) == callback \/ stopped \/ paused

\* The last-step directive of step().
Directive(id) == Tag(Message("human", "directive", DirectiveLen), id, {})

\* step(): browserContext.getState() settles.
GetStateReturns ==
    /\ UNCHANGED otherVars
    /\ pc = "getState"
    /\ \E ok \in BOOLEAN, callback \in BOOLEAN :
         IF ~ok
         THEN /\ Fail(PerceptionError, history, FALSE, FALSE, cur)
              /\ UNCHANGED <<cachedSelectorMap, outputSchema, inputMessages>>
         ELSE
           /\ cachedSelectorMap' = page
           /\ IF Raises(callback)
              THEN /\ Cancel(history, FALSE, cur)
                   /\ UNCHANGED <<outputSchema, inputMessages>>
              ELSE LET h1 == AddStateMessage(history, Cardinality(page),
                                             lastResult, settings.useVision,
                                             cur.ord)
                       h2 == IF cur.lastStep
                             THEN AddMessageWithTokens(h1, Directive(cur.ord),
                                                       NoPosition)
                             ELSE h1
                   IN /\ history' = h2
                      /\ outputSchema' = IF cur.lastStep THEN "DoneAgentOutput"
                                         ELSE outputSchema
                      /\ inputMessages' = h2.messages
                      /\ cur' = [cur EXCEPT !.stateAdded = TRUE]
                      /\ pc' = "llm"
                      /\ UNCHANGED <<maxInputTokens, ops, lastOp,
                                     consecutiveFailures, lastResult, entries,
                                     fin, runResult>>
    /\ UNCHANGED <<settings, stepIndex, maxSteps, nSteps, paused, stopped,
                   page, cachedPathHashes, actions, actIndex, results, runs,
                   steps>>

\* The action lists the model's answer can carry.
Proposals ==
    {<< >>, <<"click_element">>, <<"done">>, <<"go_to_url", "click_element">>,
     <<"scroll_down", "done">>, <<"done", "click_element">>,
     <<"go_to_url", "click_element", "done">>}

\* Array.prototype.slice(start, end): a negative argument counts from the
\* end of the list, and both are clamped to the list.
Slice(list, start, end) ==
    LET from == IF start < 0 THEN Max({Len(list) + start, 0})
                ELSE Min({start, Len(list)})
        to == IF end < 0 THEN Max({Len(list) + end, 0})
              ELSE Min({end, Len(list)})
    IN SubSeq(list, from + 1, to)

\* getNextAction without the truncation
KeepAll(list, maxActionsPerStep) == list

\* getNextAction: if (parsed.action.length > maxActionsPerStep)
\*   parsed.action = parsed.action.slice(0, maxActionsPerStep)
Truncate(list, maxActionsPerStep) ==
    IF Len(list) > maxActionsPerStep
    THEN Slice(list, 0, maxActionsPerStep)
    ELSE list

\* multiAct's result for elements that appeared.
SomethingNew == ActionResult(FALSE, "Something new appeared", << >>, TRUE)

\* step(): getNextAction settles; on an answer the step goes on to the
\* head of multiAct's loop.
LLMReturns ==
    /\ UNCHANGED otherVars
    /\ pc = "llm"
    /\ \/ \E error \in LLMErrors :
            /\ Fail(error, RemoveLastStateMessage(history), TRUE, FALSE, cur)
            /\ UNCHANGED <<nSteps, cachedPathHashes, actions, actIndex,
                           results>>
       \/ \E proposal \in Proposals, callback \in BOOLEAN :
            LET list == Truncate(proposal, settings.maxActionsPerStep)
                h1 == RemoveLastStateMessage(history)
                record == [cur EXCEPT !.parsed = TRUE]
            IN /\ nSteps' = nSteps + 1
               /\ IF Raises(callback)
                  THEN /\ Cancel(RemoveLastStateMessage(h1), TRUE, record)
                       /\ UNCHANGED <<cachedPathHashes, actions, actIndex,
                                      results>>
                  ELSE LET h2 == AddModelOutput(h1, OutputArgsLen)
                           rec2 == [record EXCEPT
                                      !.cachedMap = cachedSelectorMap]
                       IN /\ cachedPathHashes' = PathHashes(cachedSelectorMap)
                          /\ actions' = list
                          /\ actIndex' = 0
                          /\ results' = << >>
                          /\ IF list = << >>
                             THEN Succeed(h2, << >>, rec2)
                             ELSE /\ history' = h2
                                  /\ cur' = rec2
                                  /\ pc' = "act"
                                  /\ UNCHANGED <<maxInputTokens, ops, lastOp,
                                                 consecutiveFailures,
                                                 lastResult, entries, fin,
                                                 runResult>>
    /\ UNCHANGED <<settings, stepIndex, maxSteps, paused, stopped, page,
                   cachedSelectorMap, runs, steps, outputSchema,
                   inputMessages>>

\* The test at the end of multiAct's loop body without its first two
\* disjuncts
LoopEndsAfterLast(result, i, n) == i = n - 1

\* The test at the end of multiAct's loop body, after the i-th of n
\* actions gave the result: the loop is left.
LoopEnds(result, i, n) ==
    \/ result.isDone
    \/ result.error # << >>
    \/ i = n - 1

\* One iteration of multiAct's loop, for actions[actIndex]: the staleness
\* check with its getState, the interruption check, controller.act and the
\* test that ends the loop.  Whatever the handler did, the page it leaves
\* is some page.
ActionStep ==
    /\ UNCHANGED otherVars
    /\ pc = "act"
    /\ LET action == actions[actIndex + 1]
           checked == HasIndex(action) /\ actIndex # 0
           newPathHashes == PathHashes(page)
           new == checked /\ ~(newPathHashes \subseteq cachedPathHashes)
           check == [at |-> actIndex, cached |-> cur.cachedMap, live |-> page,
                     aborted |-> new]
       IN \E fresh \in BOOLEAN, callback \in BOOLEAN, throws \in BOOLEAN,
             outcome \in HandlerOutcomes(action), after \in Pages :
            IF checked /\ ~fresh
            THEN /\ Fail(PerceptionError, history, TRUE, TRUE, cur)
                 /\ UNCHANGED <<page, cachedSelectorMap, actIndex, results>>
            ELSE
              LET record == IF checked
                            THEN [cur EXCEPT !.checks = Append(@, check)]
                            ELSE cur
              IN /\ cachedSelectorMap' = IF checked THEN page
                                         ELSE cachedSelectorMap
                 /\ IF new
                    THEN /\ Succeed(history, Append(results, SomethingNew),
                                    record)
                         /\ results' = Append(results, SomethingNew)
                         /\ UNCHANGED <<page, actIndex>>
                    ELSE IF Raises(callback)
                    THEN /\ Cancel(history, TRUE, record)
                         /\ UNCHANGED <<page, actIndex, results>>
                    ELSE
                      LET ran == [record EXCEPT
                                    !.executed = Append(@, actIndex)]
                      IN /\ page' = after
                         /\ IF throws /\ HandlerThrows(action)
                            THEN /\ Fail(HandlerError, history, TRUE, TRUE,
                                         ran)
                                 /\ UNCHANGED <<actIndex, results>>
                            ELSE
                              LET rs == Append(results, outcome)
                                  back == [ran EXCEPT
                                             !.handlersReturned = @ + 1]
                              IN /\ results' = rs
                                 /\ IF LoopEnds(outcome, actIndex,
                                                Len(actions))
                                    THEN /\ Succeed(history, rs, back)
                                         /\ UNCHANGED actIndex
                                    ELSE /\ actIndex' = actIndex + 1
                                         /\ cur' = back
                                         /\ UNCHANGED
                                              <<mmVars, pc,
                                                consecutiveFailures,
                                                lastResult, entries, fin,
                                                runResult>>
    /\ UNCHANGED <<settings, stepIndex, maxSteps, nSteps, paused, stopped,
                   cachedPathHashes, actions, runs, steps, outputSchema,
                   inputMessages>>

\* run(): step() has settled; the isDone test, i++ and the loop's head.
AfterStep ==
    /\ UNCHANGED otherVars
    /\ pc = "afterStep"
    /\ IF IsDone(entries)
       THEN /\ pc' = "idle"
            /\ runResult' = "returned"
            /\ UNCHANGED <<stepIndex, steps, cur>>
       ELSE LoopHead(stepIndex + 1, maxSteps)
    /\ UNCHANGED <<mmVars, settings, maxSteps, nSteps, consecutiveFailures,
                   lastResult, entries, paused, stopped, page,
                   cachedPathHashes, cachedSelectorMap, actions, actIndex,
                   results, runs, fin, outputSchema, inputMessages>>

\* The agent's user sets and clears state.paused and state.stopped (public
\* fields of the AgentState) while run() awaits or between runs.  The
\* program reads the two flags only as stopped || paused.
Awaiting == pc \in {"idle", "getState", "llm", "act"}

Pause ==
    /\ UNCHANGED otherVars
    /\ Awaiting /\ ~paused /\ ~stopped
    /\ paused' = TRUE
    /\ UNCHANGED <<mmVars, settings, pc, stepIndex, maxSteps, nSteps,
                   consecutiveFailures, lastResult, entries, stopped,
                   runResult, page, cachedPathHashes, cachedSelectorMap,
                   actions, actIndex, results, runs, steps, cur, fin,
                   outputSchema, inputMessages>>

Stop ==
    /\ UNCHANGED otherVars
    /\ Awaiting /\ ~paused /\ ~stopped
    /\ stopped' = TRUE
    /\ UNCHANGED <<mmVars, settings, pc, stepIndex, maxSteps, nSteps,
                   consecutiveFailures, lastResult, entries, paused,
                   runResult, page, cachedPathHashes, cachedSelectorMap,
                   actions, actIndex, results, runs, steps, cur, fin,
                   outputSchema, inputMessages>>

Resume ==
    /\ UNCHANGED otherVars
    /\ pc = "idle" /\ (paused \/ stopped)
    /\ paused' = FALSE
    /\ stopped' = FALSE
    /\ UNCHANGED <<mmVars, settings, pc, stepIndex, maxSteps, nSteps,
                   consecutiveFailures, lastResult, entries,
                   runResult, page, cachedPathHashes, cachedSelectorMap,
                   actions, actIndex, results, runs, steps, cur, fin,
                   outputSchema, inputMessages>>

Next ==
    \/ Run
    \/ GetStateReturns
    \/ LLMReturns
    \/ ActionStep
    \/ AfterStep
    \/ Pause
    \/ Stop
    \/ Resume

Spec == AgentInit /\ [][Next]_vars

\* run(maxSteps) whatever number of steps the model has left: the run is
\* followed until the model's number of steps is used up.
RunAgain ==
    /\ UNCHANGED otherVars
    /\ pc = "idle"
    /\ runs < MaxRuns
    /\ \E ms \in 1..MaxStepsPerRun :
          /\ maxSteps' = ms
          /\ runs' = runs + 1
          /\ LoopHead(0, ms)
    /\ UNCHANGED <<mmVars, settings, nSteps, consecutiveFailures, lastResult,
                   entries, paused, stopped, page, cachedPathHashes,
                   cachedSelectorMap, actions, actIndex, results, fin,
                   outputSchema, inputMessages>>

NextRuns ==
    \/ RunAgain
    \/ GetStateReturns
    \/ LLMReturns
    \/ ActionStep
    \/ AfterStep
    \/ Pause
    \/ Stop
    \/ Resume

\* The agent with runs that may be longer than the steps the model has
\* left: the prefixes of such runs.
SpecRuns == AgentInit /\ [][NextRuns]_vars

(***************************************************************************)
(* Properties of the agent.                                                *)
(***************************************************************************)
\* The step described by fin has just ended and run() has not gone on.
StepEnded == pc = "afterStep"

StateMessages(ms) == {j \in 1..Len(ms) : ms[j].kind = "state"}

Checks == Range(cur.checks) \cup Range(fin.checks)

\* C2: multiAct aborts before an indexed action k >= 2 if and only if the
\* branch-path hashes of the re-snapshotted selector map are not all among
\* those of the selector map cached when multiAct started; on abort no
\* later action is executed and the result list ends with a
\* memory-included explanatory result.
AbortIffNewElements ==
    /\ \A c \in Checks :
          c.aborted <=> ~(BranchPathHashes(c.live)
                            \subseteq BranchPathHashes(c.cached))
    /\ \A c \in Range(fin.checks) :
          c.aborted => /\ \A j \in Range(fin.executed) : j < c.at
                       /\ lastResult # << >>
                       /\ Last(lastResult) = SomethingNew

\* C3: the history never holds more than one state message.
AtMostOneStateMessage == Cardinality(StateMessages(history.messages)) <= 1

\* C4: when a step that added a state message ends, that state message is
\* gone and every message that was in the history before the step is still
\* there.
StateMessageTransient ==
    (StepEnded /\ fin.stateAdded) =>
        /\ \A j \in StateMessages(history.messages) :
              history.messages[j].id # fin.ord
        /\ Len(history.messages) >= Len(fin.pre)
        /\ SubSeq(history.messages, 1, Len(fin.pre)) = fin.pre

\* Every handler the step called returned a result.
HandlersReturned(record) == Len(record.executed) = record.handlersReturned

NoStepOverFailureBudget ==
    cur.outcome = "running" => cur.failuresBefore < settings.maxFailures

\* The loop of run() ended on the failure budget with iterations left.
NoStepOverFailureBudgetWitness ==
    /\ pc = "idle" /\ runResult = "returned"
    /\ consecutiveFailures >= settings.maxFailures
    /\ stepIndex + 1 < maxSteps
    /\ ~paused /\ ~stopped /\ ~IsDone(entries)

\* C7: run() does not throw, whatever failed in its steps.
RunNeverThrows == runResult # "threw"

\* C10: every non-empty error of lastResult is in the messages sent to the
\* model in the next step (at least its last line), in a message that
\* step added.
ErrorsReachNextPrompt ==
    pc = "llm" =>
        \A r \in Range(lastResult) :
            r.error # << >> =>
                \E j \in 1..Len(inputMessages) :
                    /\ inputMessages[j].id = cur.ord
                    /\ {MemoryErrorLine(r.error), StateErrorLine(r.error)}
                          \cap inputMessages[j].refs # {}

(***************************************************************************)
(* The message manager on its own: any sequence of calls of its interface. *)
(***************************************************************************)
Op(name) == [name |-> name, threw |-> FALSE, hung |-> FALSE, cut |-> FALSE]

\* Messages a caller adds: text and vision messages of a user, a plan.
UserMessages ==
    {Message("human", "user", l) : l \in LenChoices}
    \cup {VisionMessage("state", l, e) : l \in LenChoices \ {0}, e \in EscChoices}

PlanMessages == {Message("ai", "plan", 150)}

Positions == {NoPosition, <<-1>>, <<0>>, <<2>>}

MMInit ==
    /\ \E cfg \in Configs : history = InitMessages(cfg)
    /\ settings = [maxFailures |-> 1, maxInputTokens |-> 0,
                   useVision |-> FALSE, maxActionsPerStep |-> 0]
    /\ AgentIdle
    /\ OthersIdle
    /\ page = {}
    /\ maxInputTokens \in BudgetChoices
    /\ ops = 0
    /\ lastOp = Op("init")

Returned == ~lastOp.hung /\ ops < MaxOps

\* addMessageWithTokens(message): a message appended at the tail.
OpAddMessage ==
    /\ Returned
    /\ \E m \in UserMessages :
          history' = AddMessageWithTokens(history, m, NoPosition)
    /\ ops' = ops + 1
    /\ lastOp' = Op("addMessage")
    /\ UNCHANGED <<maxInputTokens, agentVars, otherVars>>

\* addPlan(plan, position): a message put at an explicit position.
OpAddPlan ==
    /\ Returned
    /\ \E m \in PlanMessages, pos \in Positions :
          history' = AddMessageWithTokens(history, m, pos)
    /\ ops' = ops + 1
    /\ lastOp' = Op("addPlan")
    /\ UNCHANGED <<maxInputTokens, agentVars, otherVars>>

OpAddModelOutput ==
    /\ Returned
    /\ history' = AddModelOutput(history, ExampleArgsLen)
    /\ ops' = ops + 1
    /\ lastOp' = Op("addModelOutput")
    /\ UNCHANGED <<maxInputTokens, agentVars, otherVars>>

OpRemoveOldestMessage ==
    /\ Returned
    /\ history' = RemoveOldestMessage(history)
    /\ ops' = ops + 1
    /\ lastOp' = Op("removeOldestMessage")
    /\ UNCHANGED <<maxInputTokens, agentVars, otherVars>>

OpRemoveMessageAtIndex ==
    /\ Returned
    /\ \E index \in {0, Len(history.messages) - 1, Len(history.messages)} :
          history' = RemoveMessageAtIndex(history, index)
    /\ ops' = ops + 1
    /\ lastOp' = Op("removeMessageAtIndex")
    /\ UNCHANGED <<maxInputTokens, agentVars, otherVars>>

OpHistoryRemoveLastStateMessage ==
    /\ Returned
    /\ history' = HistoryRemoveLastStateMessage(history)
    /\ ops' = ops + 1
    /\ lastOp' = Op("history.removeLastStateMessage")
    /\ UNCHANGED <<maxInputTokens, agentVars, otherVars>>

OpRemoveLastStateMessage ==
    /\ Returned
    /\ history' = RemoveLastStateMessage(history)
    /\ ops' = ops + 1
    /\ lastOp' = Op("removeLastStateMessage")
    /\ UNCHANGED <<maxInputTokens, agentVars, otherVars>>

\* trimMessages(maxTokens), maxTokens defaulting to settings.maxInputTokens.
OpTrimMessages ==
    /\ Returned
    /\ \E maxTokens \in TrimChoices \cup {maxInputTokens} :
          LET r == TrimMessages(history, maxTokens) IN
          /\ history' = r.h
          /\ lastOp' = [Op("trimMessages") EXCEPT !.hung = r.hung]
    /\ ops' = ops + 1
    /\ UNCHANGED <<maxInputTokens, agentVars, otherVars>>

OpCutMessages ==
    /\ Returned
    /\ \E round \in {0, 1} :
          LET r == CutMessages(history, maxInputTokens, round) IN
          /\ history' = r.h
          /\ lastOp' = [Op("cutMessages") EXCEPT !.threw = r.threw,
                                                 !.cut = r.cut]
    /\ ops' = ops + 1
    /\ UNCHANGED <<maxInputTokens, agentVars, otherVars>>

MMNext ==
    \/ OpAddMessage
    \/ OpAddPlan
    \/ OpAddModelOutput
    \/ OpRemoveOldestMessage
    \/ OpRemoveMessageAtIndex
    \/ OpHistoryRemoveLastStateMessage
    \/ OpRemoveLastStateMessage
    \/ OpTrimMessages
    \/ OpCutMessages

SpecMM == MMInit /\ [][MMNext]_vars

(***************************************************************************)
(* Token accounting.                                                       *)
(***************************************************************************)
RECURSIVE SumTokens(_)
SumTokens(ms) == IF ms = << >> THEN 0 ELSE Head(ms).tokens + SumTokens(Tail(ms))

\* C1: after any sequence of message-history operations (adding at the tail
\* or at a position, removeOldestMessage, removeMessageAtIndex,
\* removeLastStateMessage, cutMessages) currentTokens is the sum of the
\* stored token costs of the messages in the history.
TokenAccounting ==
    history.currentTokens = SumTokens(history.messages)

\* Witness of C1: a history that was cut (image stripped, text truncated)
\* after a message was put at a position, with messages left to sum.
TokenAccountingWitness ==
    /\ lastOp.name = "cutMessages" /\ lastOp.cut
    /\ \E i \in 1..Len(history.messages) : history.messages[i].kind = "plan"
    /\ history.currentTokens > 0

(***************************************************************************)
(* cutMessages: the truncation boundary.                                   *)
(***************************************************************************)
\* A step of the manager made by the operation called name.
OpStep(name) == ops' = ops + 1 /\ lastOp'.name = name

LastMessage(h) == h.messages[Len(h.messages)]

\* The overflow that is left once the images of the last message are gone.
OverflowAfterStripping(h, budget) ==
    h.currentTokens - LastMessage(h).imgs * ImageTokens - budget

TextTokens(m) == m.tokens - m.imgs * ImageTokens

\* C8 as stated: cutMessages throws whenever the overflow left after image
\* stripping is more than 0.99 of the last message's token estimate, and in
\* every other case that is still over budget it replaces the last message
\* by a non-empty truncated message.
TruncationBoundary ==
    [][(OpStep("cutMessages") /\ history.messages # << >>
        /\ OverflowAfterStripping(history, maxInputTokens) > 0)
       => LET diff == OverflowAfterStripping(history, maxInputTokens)
              tokens == TextTokens(LastMessage(history))
              n == Len(history.messages)
          IN IF tokens = 0 \/ 100 * diff > 99 * tokens
             THEN lastOp'.threw
             ELSE /\ ~lastOp'.threw
                  /\ Len(history'.messages) = n
                  /\ SubSeq(history'.messages, 1, n - 1)
                        = SubSeq(history.messages, 1, n - 1)
                  /\ LastMessage(history').kind = "truncated"
                  /\ LastMessage(history').len > 0]_vars

(***************************************************************************)
(* The system message.                                                     *)
(***************************************************************************)
SystemMessages(h) == {i \in 1..Len(h.messages) : h.messages[i].kind = "system"}

SystemFirst(h) == h.messages # << >> /\ Head(h.messages).kind = "system"

EvictionStep ==
    \/ OpStep("trimMessages")
    \/ OpStep("removeOldestMessage")
    \/ OpStep("removeLastStateMessage")
    \/ OpStep("history.removeLastStateMessage")
    \/ OpStep("cutMessages")

\* C9: trimMessages, removeOldestMessage, removeLastStateMessage and
\* cutMessages never evict the system message: each such call leaves the
\* number of system messages as it was, and a system message that was the
\* first message is still the first message.
SystemMessageKept ==
    [][EvictionStep
       => /\ Cardinality(SystemMessages(history'))
                = Cardinality(SystemMessages(history))
          /\ (SystemFirst(history) => SystemFirst(history'))]_vars

\* Witness of C9: trimMessages has evicted every message but the system
\* message, which is over the limit alone.
SystemMessageKeptWitness ==
    /\ lastOp.name = "trimMessages"
    /\ Len(history.messages) = 1
    /\ SystemFirst(history)
    /\ history.currentTokens > 0
(***************************************************************************)
(* Sensitive data (controller/registry, message manager).  A text is the   *)
(* sequence of its parts: a word, a placeholder <secret>name</secret>, or  *)
(* the secret value of a name.                                             *)
(***************************************************************************)
MaxSecretSteps == 2
MaxTextLen == 2

Word(w) == <<"word", w>>
Placeholder(name) == <<"secret", name>>
Value(name) == <<"value", name>>

\* The names of the sensitive-data map, and what their values are like:
\* "plain" (new RegExp(value) matches the value itself), "meta" (the value
\* has regular-expression operators and its pattern does not match it, as
\* for pa$$word), "empty" (the empty string).
SecretNames == {"password"}
ValueKinds == {"plain", "meta", "empty"}

\* The texts a model answer can carry: the model knows placeholder names,
\* also one the map does not have.
TextParts == {Word("hello"), Placeholder("password"), Placeholder("token")}
Texts == UNION {[1..n -> TextParts] : n \in 0..MaxTextLen}

\* The state of the rest of the program while a part is studied alone.
ProgramIdle ==
    /\ history = EmptyHistory
    /\ maxInputTokens = 0
    /\ ops = 0
    /\ lastOp = Op("init")
    /\ settings = [maxFailures |-> 1, maxInputTokens |-> 0,
                   useVision |-> FALSE, maxActionsPerStep |-> 0]
    /\ page = {}
    /\ AgentIdle

\* Registry._replaceSensitiveData, for one string
ReplaceSecrets(text, data) ==
    [j \in DOMAIN text |->
        IF /\ text[j][1] = "secret"
           /\ text[j][2] \in DOMAIN data
           /\ data[text[j][2]] # "empty"
        THEN Value(text[j][2]) ELSE text[j]]

\* MessageManager._filterSensitiveData, for the content of a message:
\* content.replace(new RegExp(value, 'g'), '<secret>name</secret>') for
\* every non-empty value the content includes.
FilterSensitiveData(content, data) ==
    [j \in DOMAIN content |->
        IF /\ content[j][1] = "value"
           /\ content[j][2] \in DOMAIN data
           /\ data[content[j][2]] = "plain"
        THEN Placeholder(content[j][2]) ELSE content[j]]

\* A message of the history: its content, and the model output its tool
\* call refers to (<< >>: no tool call).
SecretMessage(role, content, args) ==
    [role |-> role, content |-> content, args |-> args]

\* addMessageWithTokens with sensitive data set: the content is filtered,
\* the tool calls are taken over as they are.
AddFiltered(ms, m, data) ==
    Append(ms, [m EXCEPT !.content = FilterSensitiveData(@, data)])

\* new Agent(..., {sensitiveData}): _initMessages names the placeholders.
SecretsInit ==
    /\ ProgramIdle
    /\ StateIdle
    /\ DomIdle
    /\ CallsIdle
    /\ BrowserIdle
    /\ sensitiveData \in [SecretNames -> ValueKinds]
    /\ outputs = << >>
    /\ secretMessages =
          << SecretMessage("system", <<Word("system prompt")>>, << >>),
             SecretMessage("human", <<Word("placeholders: password")>>, << >>) >>
    /\ handed = << >>
    /\ secretResult = << >>
    /\ secretPc = "answer"

\* step() up to multiAct: addStateMessage puts the memory-included result
\* of the last action into the history, the model answers with an
\* input_text action, the state message is removed and addModelOutput
\* appends the tool call, whose args is the model output itself.  (The page
\* state is taken not to show the value.)
SecretAnswer ==
    /\ secretPc = "answer"
    /\ Len(outputs) < MaxSecretSteps
    /\ \E text \in Texts :
         LET m1 == IF secretResult = << >> THEN secretMessages
                   ELSE AddFiltered(secretMessages,
                            SecretMessage("human",
                                <<Word("Action result: ")>> \o secretResult,
                                << >>),
                            sensitiveData)
             m2 == AddFiltered(m1, SecretMessage("ai", << >>,
                                                 <<Len(outputs) + 1>>),
                               sensitiveData)
             m3 == AddFiltered(m2, SecretMessage("tool", << >>, << >>),
                               sensitiveData)
         IN /\ outputs' = Append(outputs, text)
            /\ secretMessages' = m3
    /\ secretPc' = "act"
    /\ UNCHANGED <<sensitiveData, handed, secretResult, mmVars, agentVars,
                   domVars, callVars, ctxVars,
                   netVars,
                   stateVars>>

\* controller.act -> registry.executeAction for the input_text action:
\* the parameters object of the model output is rewritten in place and
\* handed to the handler (whose context has no hasSensitiveData).
SecretExecute ==
    /\ secretPc = "act"
    /\ LET j == Len(outputs)
           params == ReplaceSecrets(outputs[j], sensitiveData)
       IN /\ outputs' = [outputs EXCEPT ![j] = params]
          /\ handed' = Append(handed, params)
          /\ secretResult' = <<Word("Input ")>> \o params
                                \o <<Word(" into index 1")>>
    /\ secretPc' = "answer"
    /\ UNCHANGED <<sensitiveData, secretMessages, mmVars, agentVars, domVars,
                   callVars, ctxVars,
                   netVars,
                   stateVars>>

SecretsNext == SecretAnswer \/ SecretExecute

SpecSecrets == SecretsInit /\ [][SecretsNext]_vars

\* What the model is sent of a message: its content and its tool call's
\* arguments.
Sent(m) ==
    m.content \o (IF m.args = << >> THEN << >> ELSE outputs[m.args[1]])

HasValue(text) == \E j \in DOMAIN text : text[j][1] = "value"

\* C11: no message of the history, and so no prompt, contains a secret
\* value; the values are only in the parameters handed to the handlers.
NoSecretInHistory ==
    \A j \in DOMAIN secretMessages : ~HasValue(Sent(secretMessages[j]))

-----------------------------------------------------------------------------
\* The page snapshot: DOMService.constructDomTree and the tree's text.
\*
\* A node object is a record; a reference to a node is the id of its entry
\* in the flat map, and nodeMap is the heap of the node objects.  A string
\* is the sequence of its pieces: the punctuation characters one by one,
\* and each index, tag name, attribute value and text as one piece.

\* the largest flat map and the largest highlight index of the model
MaxNodes == 4
MaxIndex == 1

\* highlightIndex undefined, parent null
NoIndex == << >>
NoParent == << >>

\* Number.prototype.toString, for one digit
NumberToString(n) == <<"0", "1", "2", "3", "4", "5", "6", "7", "8", "9">>[n + 1]

\* String.prototype.toLowerCase, for the tag names of the model
ToLowerCase(tag) ==
    CASE tag = "BUTTON" -> "button"
      [] tag = "DIV" -> "div"
      [] OTHER -> tag

\* The text of the text node with id j.
TextOf(j) == <<"Go", "Ok", "Hi", "No", "Up">>[j]

\* The attribute maps of the model, as Object.entries lists them.
AttributeChoices ==
    { << >>,
      << [key |-> "type", value |-> "submit"] >>,
      << [key |-> "title", value |-> "Go"],
         [key |-> "role", value |-> "button"],
         [key |-> "name", value |-> "submit"],
         [key |-> "aria-label", value |-> "submit"] >> }

\* The includeAttributes of the model; << >> is null.
IncludeChoices == { << >>, <<"title", "type", "role", "aria-label">> }

\* The descriptors of the flat map.
TextData(text, isVisible) ==
    [type |-> "TEXT_NODE", text |-> text, isVisible |-> isVisible,
     tagName |-> "", attributes |-> << >>, highlightIndex |-> NoIndex,
     children |-> << >>]

ElementData(tagName, attributes, highlightIndex, children) ==
    [type |-> "ELEMENT_NODE", text |-> "", isVisible |-> TRUE,
     tagName |-> tagName, attributes |-> attributes,
     highlightIndex |-> highlightIndex, children |-> children]

\* The ids of a set, in ascending order.
RECURSIVE Ascending(_)
Ascending(S) ==
    IF S = {} THEN << >> ELSE <<Min(S)>> \o Ascending(S \ {Min(S)})

\* The highlight indices the page script gives to a set of elements: no
\* index is given twice.
IndexAssignments(elements) ==
    {f \in [elements -> {NoIndex} \cup {<<k>> : k \in 0..MaxIndex}] :
        \A a, b \in elements : (a # b /\ f[a] # NoIndex) => f[a] # f[b]}

\* The flat maps of n entries with the given parents and text nodes.
FlatMaps(n, parent, texts) ==
    { [j \in 1..n |->
         [id |-> j,
          data |->
            IF j \in texts
            THEN TextData(TextOf(j), j \in visible)
            ELSE ElementData(
                   IF index[j] = NoIndex THEN "div" ELSE tag,
                   IF index[j] = NoIndex THEN << >> ELSE attrs,
                   index[j],
                   Ascending({c \in 1..(n-1) : parent[c] = j}))]] :
        visible \in SUBSET texts,
        index \in IndexAssignments((1..n) \ texts),
        tag \in {"button", "BUTTON"},
        attrs \in AttributeChoices }

\* The results of the page script (buildDomTree.js): a flat map of n
\* entries whose ids are given in post-order, so that every node comes
\* after its children and the root is last; the nodes with children are
\* elements; the highlighted elements carry distinct indices.
EvalPages ==
    UNION { UNION { UNION {
      { [map |-> m, rootId |-> n] : m \in FlatMaps(n, parent, texts) } :
        texts \in SUBSET ((1..n) \ {parent[c] : c \in 1..(n-1)}) } :
        parent \in {f \in [1..(n-1) -> 2..n] : \A c \in 1..(n-1) : f[c] > c} } :
        n \in 1..MaxNodes }

\* new DOMTextNode(text, isVisible, null)
DOMTextNode(text, isVisible) ==
    [type |-> "TEXT_NODE", text |-> text, isVisible |-> isVisible,
     parent |-> NoParent, tagName |-> "", attributes |-> << >>,
     highlightIndex |-> NoIndex, children |-> << >>]

\* new DOMElementNode(tagName, xpath, attributes, [], isVisible, ...,
\* highlightIndex, null, ...): the constructor lower-cases the tag name.
DOMElementNode(tagName, attributes, isVisible, highlightIndex) ==
    [type |-> "ELEMENT_NODE", text |-> "", isVisible |-> isVisible,
     parent |-> NoParent, tagName |-> ToLowerCase(tagName),
     attributes |-> attributes, highlightIndex |-> highlightIndex,
     children |-> << >>]

\* DOMService.parseNode
ParseNode(nodeData) ==
    IF nodeData.type = "TEXT_NODE"
    THEN [node |-> DOMTextNode(nodeData.text, nodeData.isVisible),
          childrenIds |-> << >>]
    ELSE [node |-> DOMElementNode(nodeData.tagName, nodeData.attributes,
                                  nodeData.isVisible, nodeData.highlightIndex),
          childrenIds |-> nodeData.children]

\* map[key] = value on a JavaScript object
Put(map, key, value) ==
    [k \in DOMAIN map \cup {key} |-> IF k = key THEN value ELSE map[k]]

\* selectorMap[node.highlightIndex.toString()] = node : the key under
\* which the element id is registered, given by its position k
RegisterByPosition(selMap, nodes, id, k) == Put(selMap, NumberToString(k), id)

\* selectorMap[node.highlightIndex.toString()] = node
Register(selMap, nodes, id, k) ==
    Put(selMap, NumberToString(nodes[id].highlightIndex[1]), id)

\* The loop over childrenIds of constructDomTree with every child put at
\* the head of node.children
RECURSIVE WireChildrenReversed(_, _, _, _)
WireChildrenReversed(nodes, id, childrenIds, k) ==
    IF k > Len(childrenIds) THEN nodes
    ELSE LET childId == childrenIds[k]
         IN IF childId \notin DOMAIN nodes
            THEN WireChildrenReversed(nodes, id, childrenIds, k + 1)
            ELSE WireChildrenReversed(
                   [nodes EXCEPT ![id].children = <<childId>> \o @],
                   id, childrenIds, k + 1)

\* The loop over childrenIds of constructDomTree, from the k-th id on: a
\* child id not yet in nodeMap is skipped, a text child gets its parent,
\* every child is pushed to node.children.
RECURSIVE WireChildren(_, _, _, _)
WireChildren(nodes, id, childrenIds, k) ==
    IF k > Len(childrenIds) THEN nodes
    ELSE LET childId == childrenIds[k]
         IN IF childId \notin DOMAIN nodes
            THEN WireChildren(nodes, id, childrenIds, k + 1)
            ELSE LET n1 == IF nodes[childId].type = "TEXT_NODE"
                           THEN [nodes EXCEPT ![childId].parent = <<id>>]
                           ELSE nodes
                     n2 == [n1 EXCEPT ![id].children = Append(@, childId)]
                 IN WireChildren(n2, id, childrenIds, k + 1)

\* The loop over Object.entries(jsNodeMap) of constructDomTree, from the
\* k-th entry on.
RECURSIVE ConstructFrom(_, _, _, _)
ConstructFrom(jsNodeMap, k, nodes, selMap) ==
    IF k > Len(jsNodeMap) THEN [nodeMap |-> nodes, selectorMap |-> selMap]
    ELSE LET id == jsNodeMap[k].id
             parsed == ParseNode(jsNodeMap[k].data)
             n1 == Put(nodes, id, parsed.node)
             isElement == parsed.node.type = "ELEMENT_NODE"
             s1 == IF isElement /\ parsed.node.highlightIndex # NoIndex
                   THEN Register(selMap, n1, id, k)
                   ELSE selMap
             n2 == IF isElement
                   THEN WireChildren(n1, id, parsed.childrenIds, 1)
                   ELSE n1
         IN ConstructFrom(jsNodeMap, k + 1, n2, s1)

\* DOMTextNode.hasParentWithHighlightIndex, from the parent `current` on
RECURSIVE HighlightedFrom(_, _)
HighlightedFrom(nodes, current) ==
    IF current = NoParent THEN FALSE
    ELSE IF nodes[current[1]].highlightIndex # NoIndex THEN TRUE
    ELSE HighlightedFrom(nodes, nodes[current[1]].parent)

HasParentWithHighlightIndex(nodes, id) ==
    HighlightedFrom(nodes, nodes[id].parent)

\* The concatenation of a sequence of sequences.
RECURSIVE Flatten(_)
Flatten(seqs) ==
    IF seqs = << >> THEN << >> ELSE Head(seqs) \o Flatten(Tail(seqs))

\* collectText of getAllTextTillNextClickableElement descending through
\* highlighted elements too
RECURSIVE CollectTextThrough(_, _, _, _, _)
CollectTextThrough(nodes, self, id, currentDepth, maxDepth) ==
    IF maxDepth # -1 /\ currentDepth > maxDepth THEN << >>
    ELSE IF nodes[id].type = "TEXT_NODE" THEN <<id>>
    ELSE Flatten([j \in DOMAIN nodes[id].children |->
                    CollectTextThrough(nodes, self, nodes[id].children[j],
                                       currentDepth + 1, maxDepth)])

\* collectText of getAllTextTillNextClickableElement: the text nodes whose
\* texts are pushed to textParts, in that order
RECURSIVE CollectText(_, _, _, _, _)
CollectText(nodes, self, id, currentDepth, maxDepth) ==
    IF maxDepth # -1 /\ currentDepth > maxDepth THEN << >>
    ELSE IF /\ nodes[id].type = "ELEMENT_NODE"
            /\ id # self
            /\ nodes[id].highlightIndex # NoIndex
    THEN << >>
    ELSE IF nodes[id].type = "TEXT_NODE" THEN <<id>>
    ELSE Flatten([j \in DOMAIN nodes[id].children |->
                    CollectText(nodes, self, nodes[id].children[j],
                                currentDepth + 1, maxDepth)])

\* Array.prototype.join: the pieces with the separator between them
RECURSIVE Join(_, _)
Join(parts, sep) ==
    IF parts = << >> THEN << >>
    ELSE IF Len(parts) = 1 THEN <<parts[1]>>
    ELSE <<parts[1], sep>> \o Join(Tail(parts), sep)

Whitespace == {" ", "\n", ""}

\* String.prototype.trim
RECURSIVE Trim(_)
Trim(str) ==
    IF str = << >> THEN str
    ELSE IF Head(str) \in Whitespace THEN Trim(Tail(str))
    ELSE IF str[Len(str)] \in Whitespace
    THEN Trim(SubSeq(str, 1, Len(str) - 1))
    ELSE str

\* DOMElementNode.getAllTextTillNextClickableElement(), maxDepth = -1
GetAllTextTillNextClickableElement(nodes, id) ==
    LET textParts == CollectText(nodes, id, id, 0, -1)
    IN Trim(Join([j \in DOMAIN textParts |-> nodes[textParts[j]].text],
                 "\n"))

\* Array.from(new Set(values)): the first occurrence of each value
RECURSIVE Dedupe(_)
Dedupe(values) ==
    IF values = << >> THEN << >>
    ELSE LET rest == Dedupe(SubSeq(values, 1, Len(values) - 1))
             last == values[Len(values)]
         IN IF \E j \in DOMAIN rest : rest[j] = last THEN rest
            ELSE Append(rest, last)

\* attributes.splice(attributes.indexOf(value), 1)
RemoveFirst(values, value) ==
    LET at == Min({j \in DOMAIN values : values[j] = value})
    IN RemoveAt(values, at)

\* The attribute values clickableElementsToString shows for an element
\* whose inline text is `text`.
ShownAttributes(node, include, text) ==
    LET kept == SelectSeq(node.attributes,
                    LAMBDA a : /\ \E j \in DOMAIN include : include[j] = a.key
                               /\ a.value # node.tagName)
        values == Dedupe([j \in DOMAIN kept |-> kept[j].value])
    IN IF include = << >> THEN << >>
       ELSE IF text # << >> /\ \E j \in DOMAIN values : <<values[j]>> = text
       THEN RemoveFirst(values, text[1])
       ELSE values

\* The line clickableElementsToString pushes for a highlighted element.
ElementLine(nodes, id, include) ==
    LET node == nodes[id]
        text == GetAllTextTillNextClickableElement(nodes, id)
        attributesStr == Join(ShownAttributes(node, include, text), ";")
    IN <<"[", NumberToString(node.highlightIndex[1]), "]", "<",
         node.tagName, " ">>
         \o attributesStr
         \o (IF text = << >> THEN << >>
             ELSE IF attributesStr # << >> THEN <<">">> \o text
             ELSE text)
         \o <<"/", ">">>

\* processNode of clickableElementsToString: the lines pushed to
\* formattedText for the node and what is below it
RECURSIVE ProcessNode(_, _, _)
ProcessNode(nodes, id, include) ==
    IF nodes[id].type = "ELEMENT_NODE"
    THEN (IF nodes[id].highlightIndex # NoIndex
          THEN <<ElementLine(nodes, id, include)>>
          ELSE << >>)
         \o Flatten([j \in DOMAIN nodes[id].children |->
                       ProcessNode(nodes, nodes[id].children[j], include)])
    ELSE IF ~HasParentWithHighlightIndex(nodes, id) /\ nodes[id].isVisible
    THEN << <<nodes[id].text>> >>
    ELSE << >>

\* DOMElementNode.clickableElementsToString
ClickableElementsToString(nodes, root, include) ==
    Flatten(Join(ProcessNode(nodes, root, include), <<"\n">>))

DomInit ==
    /\ ProgramIdle
    /\ StateIdle
    /\ SecretsIdle
    /\ CallsIdle
    /\ BrowserIdle
    /\ evalPage \in EvalPages
    /\ nodeMap = << >>
    /\ rootElement = << >>
    /\ selectorMap = << >>
    /\ includeAttributes = << >>
    /\ formattedText = << >>
    /\ domPc = "evaluated"

\* constructDomTree(evalPage): throws when the root is missing from the
\* map or is no element, and else returns the root and the selector map.
ConstructDomTree ==
    /\ domPc = "evaluated"
    /\ LET built == ConstructFrom(evalPage.map, 1, << >>, << >>)
           isRoot == /\ evalPage.rootId \in DOMAIN built.nodeMap
                     /\ built.nodeMap[evalPage.rootId].type = "ELEMENT_NODE"
       IN IF isRoot
          THEN /\ nodeMap' = built.nodeMap
               /\ rootElement' = <<evalPage.rootId>>
               /\ selectorMap' = built.selectorMap
               /\ domPc' = "built"
          ELSE /\ domPc' = "failed"
               /\ UNCHANGED <<nodeMap, rootElement, selectorMap>>
    /\ UNCHANGED <<evalPage, includeAttributes, formattedText, mmVars,
                   agentVars, secretVars, callVars, ctxVars,
                   netVars,
                   stateVars>>

\* elementTree.clickableElementsToString(includeAttributes) on the built
\* tree
SerializeTree ==
    /\ domPc = "built"
    /\ \E include \in IncludeChoices :
         /\ includeAttributes' = include
         /\ formattedText' =
               ClickableElementsToString(nodeMap, rootElement[1], include)
    /\ domPc' = "serialized"
    /\ UNCHANGED <<evalPage, nodeMap, rootElement, selectorMap, mmVars,
                   agentVars, secretVars, callVars, ctxVars,
                   netVars,
                   stateVars>>

DomNext == ConstructDomTree \/ SerializeTree

SpecDom == DomInit /\ [][DomNext]_vars

\* The nodes of the built tree that are reached from the node id through
\* the children lists, the node itself included.
RECURSIVE Reachable(_, _)
Reachable(nodes, id) ==
    {id} \cup UNION {Reachable(nodes, nodes[id].children[j]) :
                        j \in DOMAIN nodes[id].children}

\* The highlighted elements of the built tree.
Highlighted ==
    {id \in Reachable(nodeMap, rootElement[1]) :
        nodeMap[id].highlightIndex # NoIndex}

Built == domPc \in {"built", "serialized"}

\* C12: no two elements reachable from the root carry the same highlight
\* index, and for every key k of the selector map selectorMap[k] is the
\* element whose highlight index is k.
UniqueHighlightIndices ==
    Built =>
        /\ \A a, b \in Highlighted :
              nodeMap[a].highlightIndex = nodeMap[b].highlightIndex => a = b
        /\ \A k \in DOMAIN selectorMap :
              /\ nodeMap[selectorMap[k]].type = "ELEMENT_NODE"
              /\ nodeMap[selectorMap[k]].highlightIndex # NoIndex
              /\ NumberToString(nodeMap[selectorMap[k]].highlightIndex[1]) = k
        /\ \A a \in Highlighted :
              LET k == NumberToString(nodeMap[a].highlightIndex[1])
              IN k \in DOMAIN selectorMap /\ selectorMap[k] = a

\* A built tree with two highlighted elements, one below the other, both
\* in the selector map.
UniqueHighlightIndicesWitness ==
    /\ Built
    /\ Cardinality(Highlighted) = 2
    /\ Cardinality(DOMAIN selectorMap) = 2
    /\ \E a, b \in Highlighted : a # b /\ b \in Reachable(nodeMap, a)

Serialized == domPc = "serialized"

\* The line `[<index>]<tagname attr1;attr2;...>text</>`.
FormatLine(index, tagName, attributes, text) ==
    <<"[", index, "]", "<", tagName>>
      \o (IF attributes = << >> THEN << >>
          ELSE <<" ">> \o Join(attributes, ";"))
      \o <<">">> \o text \o <<"<", "/", ">">>

\* The tree root div -> button[highlightIndex=0] -> text "Go".
ExampleTree ==
    /\ DOMAIN nodeMap = 1..3
    /\ rootElement = <<3>>
    /\ nodeMap[3].tagName = "div" /\ nodeMap[3].highlightIndex = NoIndex
    /\ nodeMap[3].children = <<2>>
    /\ nodeMap[2].tagName = "button" /\ nodeMap[2].highlightIndex = <<0>>
    /\ nodeMap[2].children = <<1>>
    /\ nodeMap[1].type = "TEXT_NODE" /\ nodeMap[1].text = "Go"

\* C13: each highlighted element is emitted as the line
\* `[<index>]<tagname attr1;attr2;...>text</>`, and for the tree root div ->
\* button[highlightIndex=0] -> text "Go" without included attributes the
\* output is exactly the line `[0]<button>Go</>`.
SerializerFormat ==
    Serialized =>
        /\ \A e \in Highlighted :
              LET text == GetAllTextTillNextClickableElement(nodeMap, e)
              IN ElementLine(nodeMap, e, includeAttributes) =
                   FormatLine(NumberToString(nodeMap[e].highlightIndex[1]),
                              nodeMap[e].tagName,
                              ShownAttributes(nodeMap[e], includeAttributes,
                                              text),
                              text)
        /\ (ExampleTree /\ includeAttributes = << >>) =>
              formattedText =
                 <<"[", "0", "]", "<", "button", ">", "Go", "<", "/", ">">>

\* The text nodes whose text is in the inline text of the element e.
InlineTextNodes(e) == CollectText(nodeMap, e, e, 0, -1)

\* The highlighted elements in whose inline text the text node t is.
Owners(t) ==
    {e \in Highlighted : \E j \in DOMAIN InlineTextNodes(e) :
                            InlineTextNodes(e)[j] = t}

\* The highlighted elements above the node t.
HighlightedAncestors(t) ==
    {a \in Highlighted : a # t /\ t \in Reachable(nodeMap, a)}

\* C14: each text node contributes to the inline text of at most one
\* highlighted element, its nearest highlighted ancestor, and is there
\* only once.
InlineTextOnce ==
    Serialized =>
        \A t \in {x \in Reachable(nodeMap, rootElement[1]) :
                     nodeMap[x].type = "TEXT_NODE"} :
            /\ Cardinality(Owners(t)) <= 1
            /\ \A e \in Owners(t) :
                  /\ Cardinality({j \in DOMAIN InlineTextNodes(e) :
                                     InlineTextNodes(e)[j] = t}) = 1
                  /\ e \in HighlightedAncestors(t)
                  /\ \A a \in HighlightedAncestors(t) :
                        e \in Reachable(nodeMap, a)
            /\ (HighlightedAncestors(t) # {}) => Owners(t) # {}

\* A serialized tree with a highlighted element below another one, each
\* with a text node of its own.
InlineTextOnceWitness ==
    /\ Serialized
    /\ \E a, b \in Highlighted :
          /\ a # b /\ b \in Reachable(nodeMap, a)
          /\ \E t, u \in DOMAIN nodeMap :
                t # u /\ Owners(t) = {a} /\ Owners(u) = {b}

-----------------------------------------------------------------------------
\* The history entries of the agent.

\* A step() invocation ends: fin' is its record.
StepEnds == cur.ord > 0 /\ cur' = NoStep

SingleError(result) == Len(result) = 1 /\ result[1].error # << >>

\* C15: a step() invocation that is cancelled appends no history entry and
\* every other one appends exactly one, so that the number of entries is
\* the number of invocations not cancelled; the entry of a failing step has
\* a result list that is a single error Action Result.
EntryPerStep ==
    [][StepEnds =>
         IF fin'.outcome = "cancelled"
         THEN entries' = entries
         ELSE /\ Len(entries') = Len(entries) + 1
              /\ SubSeq(entries', 1, Len(entries)) = entries
              /\ fin'.outcome # "success" =>
                    SingleError(entries'[Len(entries')].result)]_vars

Cancelled == StepEnded /\ fin.outcome = "cancelled"

\* C16: after a step that was interrupted by pause or stop, at whichever
\* of its cancellation points, consecutiveFailures and nSteps have the
\* values they had before the step and lastResult is a single
\* memory-included result that explains the pause.
CancelledStepLeavesCounters ==
    Cancelled =>
        /\ consecutiveFailures = fin.failuresBefore
        /\ nSteps = fin.nStepsBefore
        /\ Len(lastResult) = 1
        /\ lastResult[1].mem
        /\ lastResult = PausedResult

\* The actions of the step were executed in list order, one at a time.
InOrder(record) ==
    record.executed = [k \in 1..Len(record.executed) |-> k - 1]

\* results[j] is a result of actions[j], and no result before the last
\* one is done or an error.
ResultsOfActions ==
    /\ Len(results) <= Len(actions)
    /\ \A j \in DOMAIN results :
          /\ results[j] \in HandlerOutcomes(actions[j])
          /\ j < Len(results) =>
                ~results[j].isDone /\ results[j].error = << >>

MultiActReturned == StepEnded /\ fin.outcome = "success"

-----------------------------------------------------------------------------
\* Single calls: getNextAction on a parsed model output, and
\* Controller.act on what a handler returned.

\* the longest action list of a model output and the largest
\* maxActionsPerStep
MaxProposed == 3
MaxAllowed == 3

ActionNames == {"click_element", "done", "go_to_url", "scroll_down"}

\* The action lists of a parsed model output.
ActionLists == UNION {[1..n -> ActionNames] : n \in 0..MaxProposed}

\* What the LLM call of getNextAction gives: response.parsed is null, or
\* an output with an action list.
GetNextActionCalls ==
    {[fn |-> "getNextAction", parsed |-> parsed, maxActionsPerStep |-> m] :
        parsed \in {<< >>} \cup {<<list>> : list \in ActionLists},
        m \in 0..MaxAllowed}

\* new ActionResult({...}) of controller/types.ts
ControllerResult(isDone, success, extractedContent, includeInMemory, error) ==
    [isDone |-> isDone, success |-> success,
     extractedContent |-> extractedContent,
     includeInMemory |-> includeInMemory, error |-> error]

\* The values a handler returns, by the tests Controller.act makes:
\* typeof result === 'string', result instanceof ActionResult, result ===
\* null, result === undefined, and anything else.  The field value is the
\* ActionResult; for a string its extractedContent carries the string.
HandlerReturns ==
    {[type |-> "string", value |-> ControllerResult(FALSE, FALSE, text,
                                                     FALSE, "")] :
        text \in {"", "Clicked", "https://example.com"}}
    \cup {[type |-> "ActionResult",
           value |-> ControllerResult(isDone, success, text, mem, error)] :
            isDone \in BOOLEAN, success \in BOOLEAN,
            text \in {"", "Clicked"}, mem \in BOOLEAN,
            error \in {"", "Element not found"}}
    \cup {[type |-> t, value |-> ControllerResult(FALSE, FALSE, "", FALSE, "")] :
            t \in {"null", "undefined", "number", "object"}}

ActCalls == {[fn |-> "act", result |-> r] : r \in HandlerReturns}

\* getNextAction, from the parsed output on
GetNextAction(parsed, maxActionsPerStep) ==
    IF parsed = << >>
    THEN [threw |-> TRUE, message |-> "Could not parse response.",
          value |-> << >>]
    ELSE [threw |-> FALSE, message |-> "",
          value |-> Truncate(parsed[1], maxActionsPerStep)]

\* Controller.act, from the handler's return value on, with a string
\* result treated as no result
ToActionResultIgnoringStrings(result) ==
    IF result.type \in {"string", "null", "undefined"}
    THEN [threw |-> FALSE, message |-> "",
          value |-> ControllerResult(FALSE, TRUE, "", FALSE, "")]
    ELSE IF result.type = "ActionResult"
    THEN [threw |-> FALSE, message |-> "", value |-> result.value]
    ELSE [threw |-> TRUE, message |-> "Invalid action result type",
          value |-> result.value]

\* Controller.act, from the handler's return value on
ToActionResult(result) ==
    IF result.type = "string"
    THEN [threw |-> FALSE, message |-> "",
          value |-> ControllerResult(FALSE, TRUE,
                                     result.value.extractedContent,
                                     FALSE, "")]
    ELSE IF result.type = "ActionResult"
    THEN [threw |-> FALSE, message |-> "", value |-> result.value]
    ELSE IF result.type \in {"null", "undefined"}
    THEN [threw |-> FALSE, message |-> "",
          value |-> ControllerResult(FALSE, TRUE, "", FALSE, "")]
    ELSE [threw |-> TRUE, message |-> "Invalid action result type",
          value |-> result.value]

\* new StepMetadata(stepStartTime, stepEndTime, inputTokens, stepNumber)
StepMetadata(stepStartTime, stepEndTime, inputTokens, stepNumber) ==
    [stepStartTime |-> stepStartTime, stepEndTime |-> stepEndTime,
     inputTokens |-> inputTokens, stepNumber |-> stepNumber]

\* The finally block of step(): the metadata of the history entry, from
\* the agent's step counter, the times of the step and the token total
\* read before the LLM call.
MakeMetadata(nStepsNow, stepStartTime, stepEndTime, tokens) ==
    StepMetadata(nStepsNow, stepStartTime, stepEndTime, tokens)

\* Steps: the step counter, Date.now() / 1000 at the start and at the end,
\* and history.currentTokens.
MetadataCalls ==
    {[fn |-> "makeMetadata", nSteps |-> n, stepStartTime |-> t,
      stepEndTime |-> t + d, tokens |-> k] :
        n \in 1..MaxTotalSteps, t \in {1700000000, 1700000060},
        d \in {2, 9}, k \in {1235, 1546}}

(***************************************************************************)
(* Raw mode of getNextAction.  A response is a sequence of pieces: the     *)
(* fence, the newline,    the think tags, the quote and the braces one by *)
(* one, words atomic.                                                      *)
(***************************************************************************)
\* the piece that stands for the three backticks of a fence
Fence == "<fence>"
NewLine == "\n"
ThinkOpen == "<think>"
ThinkClose == "</think>"
Quote == "\""
Member == "\"action\": []"

\* String.prototype.indexOf(piece, from), 1-based; 0 when there is none
IndexOf(text, piece, from) ==
    LET found == {j \in from..Len(text) : text[j] = piece}
    IN IF found = {} THEN 0 ELSE Min(found)

\* text.slice(from - 1)
From(text, from) == SubSeq(text, from, Len(text))

\* text.replace(/<think>[\s\S]*?<\/think>/g, "")
RECURSIVE RemoveThinkBlocks(_)
RemoveThinkBlocks(text) ==
    LET open == IndexOf(text, ThinkOpen, 1)
        close == IF open = 0 THEN 0 ELSE IndexOf(text, ThinkClose, open + 1)
    IN IF close = 0 THEN text
       ELSE SubSeq(text, 1, open - 1)
            \o RemoveThinkBlocks(From(text, close + 1))

\* text.replace(/[\s\S]*?<\/think>/g, "")
RECURSIVE RemoveStrayClose(_)
RemoveStrayClose(text) ==
    LET close == IndexOf(text, ThinkClose, 1)
    IN IF close = 0 THEN text ELSE RemoveStrayClose(From(text, close + 1))

\* Agent._removeThinkTags
RemoveThinkTags(text) == Trim(RemoveStrayClose(RemoveThinkBlocks(text)))

\* JSON.parse accepts the text of the members of an object: members and
\* strings, a string being anything but a quote or a newline between two
\* quotes, with whitespace between them.
RECURSIVE ValidMembers(_)
ValidMembers(text) ==
    IF text = << >> THEN TRUE
    ELSE IF Head(text) \in {Member, NewLine} THEN ValidMembers(Tail(text))
    ELSE IF Head(text) = Quote
    THEN LET end == IndexOf(text, Quote, 2)
         IN /\ end # 0
            /\ \A j \in 2..(end - 1) : text[j] # NewLine
            /\ ValidMembers(From(text, end + 1))
    ELSE FALSE

\* JSON.parse(content) returns an object
ValidJson(content) ==
    LET text == Trim(content)
    IN /\ Len(text) >= 2
       /\ Head(text) = "{"
       /\ Last(text) = "}"
       /\ ValidMembers(SubSeq(text, 2, Len(text) - 1))

\* content.split(fence)[1]
SecondPart(content) ==
    LET first == IndexOf(content, Fence, 1)
        second == IndexOf(content, Fence, first + 1)
    IN SubSeq(content, first + 1,
              IF second = 0 THEN Len(content) ELSE second - 1)

\* lines.slice(1).join('\n') of content.split('\n')
AfterFirstLine(content) == From(content, IndexOf(content, NewLine, 1) + 1)

\* extractJsonFromModelOutput: the text handed to JSON.parse
JsonText(content) ==
    IF IndexOf(content, Fence, 1) # 0
    THEN LET part == SecondPart(content)
         IN IF IndexOf(part, NewLine, 1) # 0 THEN AfterFirstLine(part)
            ELSE part
    ELSE content

\* getNextAction in raw mode, from the content of the LLM's answer to the
\* parsed JSON or the error thrown
ParseRaw(content) ==
    LET text == JsonText(RemoveThinkTags(content))
    IN IF ValidJson(text)
       THEN [threw |-> FALSE, message |-> "", value |-> Trim(text)]
       ELSE [threw |-> TRUE, message |-> "Could not parse response.",
             value |-> << >>]

\* The JSON objects of the model: on one line, on several lines, and with
\* a fence inside a string.
JsonObjects ==
    { <<"{", Member, "}">>,
      <<"{", NewLine, Member, NewLine, "}">>,
      <<"{", Quote, "text", Quote, Member, "}">>,
      <<"{", Quote, Fence, "ls", Fence, Quote, Member, "}">> }

\* What precedes the JSON: nothing, think blocks, or text ended by a stray
\* closing tag.
ThinkParts ==
    { << >>,
      <<ThinkOpen, "hm", ThinkClose, NewLine>>,
      <<ThinkOpen, "hm", NewLine, "{", ThinkClose, NewLine,
        ThinkOpen, ThinkClose>>,
      <<"hm", ThinkClose, NewLine>> }

\* The opening fences: none, with a language tag, without one.
FenceHeads == { << >>, <<Fence, "json", NewLine>>, <<Fence, NewLine>> }

\* A response of the class: an optional fence around optional think blocks
\* followed by a JSON object.
Response(head, think, json) ==
    head \o think \o json
    \o (IF head = << >> THEN << >> ELSE <<NewLine, Fence>>)

\* Responses without a valid JSON object.
InvalidResponses ==
    { << >>, <<"hm">>, <<"{", Member>>, <<ThinkOpen, "{", Member, "}", ThinkClose>>,
      <<Fence, "json", NewLine, "hm", NewLine, Fence>>,
      <<"{", Quote, Member, "}">> }

ParseRawCalls ==
    {[fn |-> "parseRaw", response |-> Response(head, think, json),
      json |-> <<json>>] :
        head \in FenceHeads, think \in ThinkParts, json \in JsonObjects}
    \cup {[fn |-> "parseRaw", response |-> r, json |-> << >>] :
             r \in InvalidResponses}

CallsInit ==
    /\ ProgramIdle
    /\ StateIdle
    /\ SecretsIdle
    /\ DomIdle
    /\ BrowserIdle
    /\ call \in GetNextActionCalls \cup ActCalls \cup MetadataCalls
                \cup ParseRawCalls
    /\ returned = << >>

GetNextActionReturns ==
    /\ returned = << >>
    /\ call.fn = "getNextAction"
    /\ returned' = <<GetNextAction(call.parsed, call.maxActionsPerStep)>>
    /\ UNCHANGED <<call, mmVars, agentVars, secretVars, domVars, ctxVars,
                   netVars,
                   stateVars>>

ActReturns ==
    /\ returned = << >>
    /\ call.fn = "act"
    /\ returned' = <<ToActionResult(call.result)>>
    /\ UNCHANGED <<call, mmVars, agentVars, secretVars, domVars, ctxVars,
                   netVars,
                   stateVars>>

MakeMetadataReturns ==
    /\ returned = << >>
    /\ call.fn = "makeMetadata"
    /\ returned' = <<MakeMetadata(call.nSteps, call.stepStartTime,
                                  call.stepEndTime, call.tokens)>>
    /\ UNCHANGED <<call, mmVars, agentVars, secretVars, domVars, ctxVars,
                   netVars,
                   stateVars>>

ParseRawReturns ==
    /\ returned = << >>
    /\ call.fn = "parseRaw"
    /\ returned' = <<ParseRaw(call.response)>>
    /\ UNCHANGED <<call, mmVars, agentVars, secretVars, domVars, ctxVars,
                   netVars,
                   stateVars>>

CallsNext ==
    \/ GetNextActionReturns
    \/ ActReturns
    \/ MakeMetadataReturns
    \/ ParseRawReturns

SpecCalls == CallsInit /\ [][CallsNext]_vars

HasReturned(fn) == call # << >> /\ call.fn = fn /\ returned # << >>

\* C18: for a model output with n actions getNextAction returns the first
\* min(n, maxActionsPerStep) actions in their order, and the surplus
\* raises no error.
SurplusActionsDropped ==
    (HasReturned("getNextAction") /\ call.parsed # << >>) =>
        LET list == call.parsed[1]
            kept == Min({Len(list), call.maxActionsPerStep})
        IN /\ ~returned[1].threw
           /\ Len(returned[1].value) = kept
           /\ \A j \in 1..kept : returned[1].value[j] = list[j]

\* getNextAction returned for an output with more actions than allowed.
SurplusActionsDroppedWitness ==
    /\ HasReturned("getNextAction")
    /\ call.parsed # << >>
    /\ Len(call.parsed[1]) = 3
    /\ call.maxActionsPerStep = 2
    /\ Len(returned[1].value) = 2

\* C19: Controller.act turns a string the handler returned into a
\* successful, not-done result whose extractedContent is that string, null
\* or undefined into an empty successful result, and returns an
\* ActionResult unchanged.
ActMapsReturnValue ==
    HasReturned("act") =>
        LET given == call.result
            out == returned[1]
        IN /\ given.type = "string" =>
                 /\ ~out.threw
                 /\ out.value.success /\ ~out.value.isDone
                 /\ out.value.extractedContent = given.value.extractedContent
           /\ given.type \in {"null", "undefined"} =>
                 /\ ~out.threw
                 /\ out.value.success /\ ~out.value.isDone
                 /\ out.value.extractedContent = ""
                 /\ out.value.error = ""
           /\ given.type = "ActionResult" =>
                 ~out.threw /\ out.value = given.value

\* act returned for a handler that returned the string 'Clicked'.
ActMapsReturnValueWitness ==
    /\ HasReturned("act")
    /\ call.result.type = "string"
    /\ returned[1].value.extractedContent = "Clicked"

-----------------------------------------------------------------------------
\* cutMessages and the images of the last message.

\* C20: when the running total exceeds the budget, cutMessages removes
\* every image of the last message, which lowers the token count of the
\* message and the total by the cost of the images, before it looks at the
\* text; when that brings the total within the budget no text is
\* truncated, and text is truncated (or the call fails) only when it does
\* not.
ImagesRemovedFirst ==
    [][(OpStep("cutMessages") /\ history.messages # << >>
        /\ history.currentTokens > maxInputTokens)
       => LET last == LastMessage(history)
              cost == last.imgs * ImageTokens
              n == Len(history.messages)
              suffices == history.currentTokens - cost <= maxInputTokens
          IN /\ LastMessage(history').imgs = 0
             /\ ~lastOp'.cut =>
                   /\ Len(history'.messages) = n
                   /\ SubSeq(history'.messages, 1, n - 1)
                         = SubSeq(history.messages, 1, n - 1)
                   /\ LastMessage(history').tokens = last.tokens - cost
                   /\ history'.currentTokens = history.currentTokens - cost
                   /\ LastMessage(history').kind = last.kind
                   /\ LastMessage(history').len = last.len
             /\ suffices => ~lastOp'.cut /\ ~lastOp'.threw
             /\ ~suffices => lastOp'.cut \/ lastOp'.threw]_vars

\* cutMessages has removed the image of a state message, which brought
\* the total within the budget, and has left its text as it was.
ImagesRemovedFirstWitness ==
    /\ lastOp.name = "cutMessages" /\ ~lastOp.cut /\ ~lastOp.threw
    /\ history.messages # << >>
    /\ LastMessage(history).kind = "state"
    /\ LastMessage(history).imgs = 0
    /\ LastMessage(history).len > 0
    /\ history.currentTokens <= maxInputTokens
    /\ history.currentTokens + ImageTokens > maxInputTokens

-----------------------------------------------------------------------------
\* run() under the assumption that every call it awaits settles: what
\* step() awaits (getState, the LLM call, the action handlers) returns or
\* throws, and run() goes on after step().
SpecFair ==
    /\ Spec
    /\ WF_vars(GetStateReturns)
    /\ WF_vars(LLMReturns)
    /\ WF_vars(ActionStep)
    /\ WF_vars(AfterStep)

\* run() calls step().
StepStarts == cur.ord = 0 /\ cur'.ord > 0

\* The step that just ended has a history entry, and it ends with a
\* result that is done.
EndedWithDone ==
    /\ StepEnded
    /\ entries # << >>
    /\ Last(entries).ord = fin.ord
    /\ Last(entries).result # << >>
    /\ Last(Last(entries).result).isDone

\* C21: run(maxSteps) terminates when every call it awaits settles; it
\* calls step at most maxSteps times (for i = 0, 1, ... below maxSteps),
\* calls it only when neither paused nor stopped is set, and calls it no
\* more after the first step whose history entry ends with a done result.
RunTerminates ==
    /\ [][StepStarts =>
            /\ ~paused /\ ~stopped
            /\ stepIndex' < maxSteps'
            /\ stepIndex' = IF pc = "idle" THEN 0 ELSE stepIndex + 1]_vars
    /\ [][EndedWithDone => pc' = "idle" /\ cur' = cur]_vars
    /\ (pc # "idle") ~> (pc = "idle")

\* run(2) has returned after its first step, whose entry ends with a done
\* result.
RunTerminatesWitness ==
    /\ pc = "idle" /\ runResult = "returned"
    /\ maxSteps = 2 /\ stepIndex = 0
    /\ entries # << >> /\ Last(entries).ord = fin.ord
    /\ IsDone(entries)

-----------------------------------------------------------------------------
\* Exceptions of action handlers.

\* The step ended after a handler had thrown.
HandlerThrew == StepEnded /\ fin.raised = HandlerError.message

\* C22: when an action handler throws, multiAct returns with the
\* exception as the result of that action, one result for each action
\* executed, and the step is not counted as a failure:
\* consecutiveFailures is not incremented.
HandlerThrowCaptured ==
    HandlerThrew =>
        /\ fin.outcome = "success"
        /\ consecutiveFailures <= fin.failuresBefore
        /\ Len(lastResult) = Len(fin.executed)
        /\ Last(lastResult).error # << >>

-----------------------------------------------------------------------------
\* Pause and stop during a step.

\* C23: once multiAct has executed an action of the list, setting paused
\* or stopped, or the status callback answering true, does not keep the
\* remaining actions from being executed: the step is not cancelled
\* between two actions.
NoCancelBetweenActions ==
    (StepEnded /\ Len(fin.executed) > 0) => fin.outcome # "cancelled"

\* The model outputs in a history.
ModelOutputs(h) == {j \in 1..Len(h.messages) : h.messages[j].kind = "output"}

\* getState or the LLM call of the running step settles.
CallSettles == pc \in {"getState", "llm"} /\ pc' # pc

\* C24: when paused or stopped is set before the second cancellation
\* check of a step, also while the LLM call is in flight, or the status
\* callback answers true at a check, the step ends without its model
\* output in the message history and without any of its actions executed.
InterruptedBeforeCommit ==
    [][(CallSettles
        /\ (paused \/ stopped
               \/ (fin'.ord = cur.ord /\ fin'.outcome = "cancelled")))
       => /\ pc' \in {"afterStep", "idle"}
          /\ fin'.ord = cur.ord
          /\ fin'.outcome # "success"
          /\ fin'.executed = << >>
          /\ Cardinality(ModelOutputs(history'))
                = Cardinality(ModelOutputs(history))]_vars

\* A step was cancelled at its second check: paused was set while the
\* LLM call was in flight, and the LLM had answered.
InterruptedBeforeCommitWitness ==
    /\ StepEnded /\ fin.outcome = "cancelled"
    /\ fin.parsed /\ paused
    /\ fin.executed = << >>


(***************************************************************************)
(* The step-level error handler.                                           *)
(***************************************************************************)
\* The errors step() hands to the handler.
StepErrors == LLMErrors \cup {PerceptionError, HandlerError}

\* The errors a failed step raised, found again from the message recorded
\* for the step.
RaisedErrors == {e \in StepErrors : e.message = fin.raised}

\* The error carries the name RateLimitError or one of the phrases
\* "rate limit", "quota", "capacity".
RateLimitSignal(error) ==
    error.name = "RateLimitError" \/ error.phrases \cap RateLimitPhrases # {}

StepFailed == StepEnded /\ fin.outcome = "failed"

\* C25: after a step that failed with an error carrying a rate-limit, quota
\* or capacity signal, whatever the error's name, the handler has waited
\* the retry delay and consecutiveFailures is one above its value before.
RateLimitWaits ==
    StepFailed =>
        \A e \in RaisedErrors :
            RateLimitSignal(e) => /\ fin.slept
                                  /\ consecutiveFailures = fin.failuresBefore + 1


\* The step in progress ends in the error handler, called with error.
HandlerRuns(error) ==
    /\ cur.ord > 0
    /\ fin'.ord = cur.ord
    /\ fin'.outcome \in {"failed", "crashed"}
    /\ fin'.raised = error.message

\* C26: each step error that mentions a token-limit phrase leaves the
\* message manager's maxInputTokens 500 below the value it had before the
\* error, so that k such errors lower it by 500 * k.
TokenLimitLowersBudget ==
    [][HandlerRuns(ContextLengthError)
       => maxInputTokens' = maxInputTokens - TokenDecrement]_vars


\* error is the list of lines of text; it starts with the lines of prefix.
StartsWith(error, prefix) ==
    /\ Len(error) >= Len(prefix)
    /\ SubSeq(error, 1, Len(prefix)) = prefix

\* C27: for every step-level error other than the cancellation, the handler
\* increments consecutiveFailures by one and returns one result, included
\* in memory, whose error carries the text of the error.
HandlerConverges ==
    [][\A e \in StepErrors :
          HandlerRuns(e)
          => /\ consecutiveFailures' = consecutiveFailures + 1
             /\ Len(lastResult') = 1
             /\ lastResult'[1].mem
             /\ StartsWith(lastResult'[1].error, e.message)]_vars


\* The lines of a formatted error that contain the text of its message:
\* the message itself and the head of the stack, "<name>: <message>".
LinesMentioning(error) ==
    {error.message[1], error.name \o ": " \o error.message[1]}

\* The permanent 'Action error' messages the step in progress added.
ActionErrorMessages ==
    {m \in Range(history.messages) : m.kind = "error" /\ m.id = cur.ord}

\* C28: in the step after a step that failed with error E, the permanent
\* 'Action error' message added to the history contains the text of E's
\* message and, for a parse failure, the corrective hint as well.
ErrorTextInMemory ==
    (pc = "llm" /\ fin.outcome = "failed") =>
        \A e \in RaisedErrors :
            \E m \in ActionErrorMessages :
                /\ LinesMentioning(e) \cap m.refs # {}
                /\ e = ParseError => Last(ParseHint) \in m.refs


-----------------------------------------------------------------------------
(***************************************************************************)
(* constructDomTree on any flat map: the entries in any order, and entries *)
(* missing (a partial extraction).                                         *)
(***************************************************************************)
MaxReordered == 3

Numberings(n) ==
    {f \in [1..n -> 1..n] : \A a, b \in 1..n : f[a] = f[b] => a = b}

\* The position in the flat map m of the entry with the given id.
EntryOf(m, id) == CHOOSE j \in DOMAIN m : m[j].id = id

\* The ids of the entries of a flat map.
Ids(m) == {m[j].id : j \in DOMAIN m}

\* The flat map m with the id j given to the entry that had pi[j] and the
\* child ids renamed alike: Object.entries lists integer keys in ascending
\* order, whatever the order in which the script wrote them.
Renumber(m, pi) ==
    LET inv == [old \in 1..Len(m) |->
                   CHOOSE new \in 1..Len(m) : pi[new] = old]
    IN [new \in 1..Len(m) |->
          [id |-> new,
           data |-> [m[pi[new]].data EXCEPT
                       !.children = [c \in DOMAIN @ |-> inv[@[c]]]]]]

\* The flat map m without the entries whose ids are in gone.
Without(m, gone) ==
    LET Kept(entry) == entry.id \notin gone IN SelectSeq(m, Kept)

\* The results of a page script that numbers the nodes in any order and
\* may leave out nodes other than the root.
AnyPages ==
    UNION { UNION {
      { [map |-> Without(Renumber(result.map, pi), gone),
         rootId |-> CHOOSE new \in 1..Len(result.map) : pi[new] = result.rootId] :
          gone \in {g \in SUBSET (1..Len(result.map)) :
                       \A new \in g : pi[new] # result.rootId} } :
        pi \in Numberings(Len(result.map)) } :
        result \in {q \in EvalPages : Len(q.map) <= MaxReordered} }

DomAnyInit ==
    /\ ProgramIdle
    /\ StateIdle
    /\ SecretsIdle
    /\ CallsIdle
    /\ BrowserIdle
    /\ evalPage \in AnyPages
    /\ nodeMap = << >>
    /\ rootElement = << >>
    /\ selectorMap = << >>
    /\ includeAttributes = << >>
    /\ formattedText = << >>
    /\ domPc = "evaluated"

SpecDomAny == DomAnyInit /\ [][DomNext]_vars

\* The child ids the entry of the element id lists that are ids of entries
\* of the flat map, in the listed order.
ListedChildren(m, id) ==
    LET Present(c) == c \in Ids(m)
    IN SelectSeq(m[EntryOf(m, id)].data.children, Present)

\* C29 as stated: whatever the order of the entries of the flat map, the children of
\* each element of the built tree are the child ids its entry lists that
\* are present in the map, in the listed order.
ChildrenWired ==
    Built =>
        \A id \in DOMAIN nodeMap :
            nodeMap[id].type = "ELEMENT_NODE" =>
                nodeMap[id].children = ListedChildren(evalPage.map, id)


\* The child ids the entry of the element id lists whose own entries come
\* before it in the flat map, in the listed order.
ListedBefore(m, id) ==
    LET Earlier(c) == c \in Ids(m) /\ EntryOf(m, c) < EntryOf(m, id)
    IN SelectSeq(m[EntryOf(m, id)].data.children, Earlier)

\* C29: the children of each element of the built tree are the child ids
\* its entry lists whose entries come before the element's own entry, in
\* the listed order; so in a flat map that lists every node after its
\* children each listed child that is present is wired, and only the ids
\* absent from the map are skipped.
ChildrenWiredBottomUp ==
    Built =>
        \A id \in DOMAIN nodeMap :
            nodeMap[id].type = "ELEMENT_NODE" =>
                /\ nodeMap[id].children = ListedBefore(evalPage.map, id)
                /\ (\A c \in Ids(evalPage.map) :
                       c \in Range(ListedChildren(evalPage.map, id))
                          => EntryOf(evalPage.map, c) < EntryOf(evalPage.map, id))
                   => nodeMap[id].children = ListedChildren(evalPage.map, id)

\* A built tree whose root lists two children that come before it and are
\* both wired, in the listed order, and a built tree whose root lists a
\* child id absent from the map.
ChildrenWiredBottomUpWitness ==
    /\ Built
    /\ LET m == evalPage.map
           listed == m[EntryOf(m, rootElement[1])].data.children
       IN /\ Len(listed) = 2
          /\ \/ /\ nodeMap[rootElement[1]].children = listed
                /\ listed[1] > listed[2]
             \/ /\ listed[1] \notin Ids(m)
                /\ nodeMap[rootElement[1]].children = <<listed[2]>>


\* C30: in the built tree every node of an element's children list, text
\* node or element, has that element as its parent, and the root has no
\* parent.
ParentsSet ==
    Built =>
        /\ nodeMap[rootElement[1]].parent = NoParent
        /\ \A id \in Reachable(nodeMap, rootElement[1]) :
              \A j \in DOMAIN nodeMap[id].children :
                  nodeMap[nodeMap[id].children[j]].parent = <<id>>


\* The lines clickableElementsToString pushed to formattedText, before
\* they are joined.
FormattedLines ==
    ProcessNode(nodeMap, rootElement[1], includeAttributes)

\* The text node t is emitted as a line of its own.
OwnLine(t) == \E j \in DOMAIN FormattedLines :
                  FormattedLines[j] = <<nodeMap[t].text>>

\* C31: a text node of the built tree is emitted as a line of its own if
\* and only if it is visible and no ancestor of it, at any depth, carries a
\* highlight index.
TextLineIffNoHighlightedAncestor ==
    Serialized =>
        \A t \in {x \in Reachable(nodeMap, rootElement[1]) :
                     nodeMap[x].type = "TEXT_NODE"} :
            OwnLine(t) <=> (nodeMap[t].isVisible /\ HighlightedAncestors(t) = {})


-----------------------------------------------------------------------------
(***************************************************************************)
(* BrowserContext.getState and _updateState.                               *)
(***************************************************************************)
MaxGetStates == 6

\* new BrowserState(...): the snapshot the n-th call of getState builds of
\* the page.
BrowserState(n, elements) == [call |-> n, selectorMap |-> elements]

UrlNotAllowed == Error("Error", <<"URL not allowed: https://example.org">>, {})

\* What the try block of _updateState can throw: the page is not
\* accessible (page.evaluate('1') rejects), the DOM data is missing or
\* malformed (constructDomTree).
PageClosed == Error("Error", <<"Target page, context or browser has been closed">>, {})
MissingDomData ==
    Error("Error", <<"Missing required DOM tree data: map=false, rootId=false">>, {})
SnapshotErrors == {PageClosed, MissingDomData, PerceptionError}

Outcome(threw, state, error) ==
    [threw |-> threw, state |-> state, error |-> error]

\* _updateState with a catch block that always rethrows
UpdateStateRethrowing(current, built, error) ==
    IF built # << >>
    THEN [currentState |-> built, result |-> Outcome(FALSE, built, << >>)]
    ELSE [currentState |-> current, result |-> Outcome(TRUE, << >>, error)]

\* _updateState: built is <<state>> when the try block got to its end and
\* << >> when something in it threw error; current is this.currentState.
UpdateState(current, built, error) ==
    IF built # << >>
    THEN [currentState |-> built, result |-> Outcome(FALSE, built, << >>)]
    ELSE IF current # << >>
    THEN [currentState |-> current, result |-> Outcome(FALSE, current, << >>)]
    ELSE [currentState |-> current, result |-> Outcome(TRUE, << >>, error)]

CtxInit ==
    /\ ProgramIdle
    /\ StateIdle
    /\ SecretsIdle
    /\ DomIdle
    /\ CallsIdle
    /\ NetIdle
    /\ CtxIdle

\* getState() is called: _waitForPageAndFramesLoad settles.  It rethrows
\* only 'URL not allowed'.
GetState ==
    /\ ctxPc = "idle"
    /\ getStateCalls < MaxGetStates
    /\ getStateCalls' = getStateCalls + 1
    /\ \E allowed \in BOOLEAN :
         IF allowed
         THEN /\ ctxPc' = "updating"
              /\ getStateResult' = << >>
         ELSE /\ ctxPc' = "idle"
              /\ getStateResult' =
                    <<Outcome(TRUE, << >>, UrlNotAllowed.message)
                         @@ [failed |-> FALSE]>>
    /\ UNCHANGED <<currentState, sessionCachedState, mmVars, agentVars,
                   secretVars, domVars, callVars, netVars,
                   stateVars>>

\* getState(): _updateState settles; then session.cachedState = state.
UpdateStateSettles ==
    /\ ctxPc = "updating"
    /\ ctxPc' = "idle"
    /\ \E elements \in Pages, ok \in BOOLEAN, error \in SnapshotErrors :
         LET built == IF ok THEN <<BrowserState(getStateCalls, elements)>>
                      ELSE << >>
             r == UpdateState(currentState, built, error.message)
         IN /\ currentState' = r.currentState
            /\ sessionCachedState' =
                  IF r.result.threw THEN sessionCachedState ELSE r.result.state
            /\ getStateResult' = <<r.result @@ [failed |-> ~ok]>>
    /\ UNCHANGED <<getStateCalls, mmVars, agentVars, secretVars, domVars,
                   callVars, netVars,
                   stateVars>>

CtxNext == GetState \/ UpdateStateSettles

SpecCtx == CtxInit /\ [][CtxNext]_vars

\* The last call of getState failed to build the snapshot.
BuildFailed == getStateResult # << >> /\ getStateResult[1].failed

-----------------------------------------------------------------------------
(***************************************************************************)
(* BrowserContext._waitForStableNetwork.                                   *)
(***************************************************************************)
MaxRequests == 2
\* config.waitForNetworkIdlePageLoadTime and config.maximumWaitPageLoadTime
\* in units of the 100 ms between two checks
NetworkIdleTime == 2
MaxWaitTime == 4

Requests == 1..MaxRequests

\* checkNetworkIdle, first test: no tracked request is pending and the
\* quiet period has elapsed
NetworkIdle(pending, time, activity) ==
    pending = {} /\ (time - activity) >= NetworkIdleTime

\* checkNetworkIdle without its second test
NoTimeout(time, start) == FALSE

\* checkNetworkIdle, second test: the maximum wait is over
Timeout(time, start) == time - start > MaxWaitTime

NetInit ==
    /\ ProgramIdle
    /\ StateIdle
    /\ SecretsIdle
    /\ DomIdle
    /\ CallsIdle
    /\ CtxIdle
    /\ NetIdle

\* checkNetworkIdle(): cleanup() and resolve(), or setTimeout(.., 100)
CheckNetworkIdleAt(time, start) ==
    IF NetworkIdle(pendingRequests, time, lastActivity) \/ Timeout(time, start)
    THEN /\ listening' = FALSE
         /\ netPc' = "resolved"
         /\ nextCheck' = nextCheck
    ELSE /\ listening' = TRUE
         /\ netPc' = "waiting"
         /\ nextCheck' = time + 1

\* _waitForStableNetwork is called: the listeners are attached and
\* checkNetworkIdle runs for the first time.
WaitForStableNetwork ==
    /\ netPc = "idle"
    /\ pendingRequests' = {}
    /\ lastActivity' = now
    /\ startTime' = now
    /\ IF NetworkIdle({}, now, now) \/ Timeout(now, now)
       THEN /\ listening' = FALSE /\ netPc' = "resolved"
            /\ nextCheck' = nextCheck
       ELSE /\ listening' = TRUE /\ netPc' = "waiting"
            /\ nextCheck' = now + 1
    /\ UNCHANGED <<now, answered, mmVars, agentVars, secretVars, domVars,
                   callVars, ctxVars,
                   stateVars>>

\* onRequest: a request that passes the filters is tracked.
OnRequest ==
    /\ listening
    /\ \E request \in Requests \ (pendingRequests \cup answered),
          tracked \in BOOLEAN :
         IF tracked
         THEN /\ pendingRequests' = pendingRequests \cup {request}
              /\ lastActivity' = now
              /\ answered' = answered
         ELSE /\ answered' = answered \cup {request}
              /\ UNCHANGED <<pendingRequests, lastActivity>>
    /\ UNCHANGED <<now, startTime, listening, nextCheck, netPc, mmVars,
                   agentVars, secretVars, domVars, callVars, ctxVars,
                   stateVars>>

\* onResponse for a tracked request: the request is deleted, and the
\* response counts as activity unless its content type or length says it
\* is streaming, irrelevant or too large.
OnResponse ==
    /\ listening
    /\ \E request \in pendingRequests, relevant \in BOOLEAN :
         /\ pendingRequests' = pendingRequests \ {request}
         /\ answered' = answered \cup {request}
         /\ lastActivity' = IF relevant THEN now ELSE lastActivity
    /\ UNCHANGED <<now, startTime, listening, nextCheck, netPc, mmVars,
                   agentVars, secretVars, domVars, callVars, ctxVars,
                   stateVars>>

\* 100 ms pass before the timer of checkNetworkIdle is due.
TimePasses ==
    /\ netPc = "waiting"
    /\ now < nextCheck
    /\ now' = now + 1
    /\ UNCHANGED <<startTime, lastActivity, pendingRequests, answered,
                   listening, nextCheck, netPc, mmVars, agentVars, secretVars,
                   domVars, callVars, ctxVars,
                   stateVars>>

\* The timer fires: checkNetworkIdle.
CheckNetworkIdle ==
    /\ netPc = "waiting"
    /\ now = nextCheck
    /\ CheckNetworkIdleAt(now, startTime)
    /\ UNCHANGED <<now, startTime, lastActivity, pendingRequests, answered,
                   mmVars, agentVars, secretVars, domVars, callVars, ctxVars,
                   stateVars>>

NetNext ==
    \/ WaitForStableNetwork
    \/ OnRequest
    \/ OnResponse
    \/ TimePasses
    \/ CheckNetworkIdle

SpecNet == NetInit /\ [][NetNext]_vars

\* Time passes and the timer fires.
SpecNetFair == SpecNet /\ WF_vars(TimePasses) /\ WF_vars(CheckNetworkIdle)

\* A tracked request has been pending since the wait began and is never
\* answered.
Unanswered == pendingRequests # {} /\ now - startTime > MaxWaitTime

\* C33: the network-idle wait always resolves, also when a tracked request
\* never gets a response: at the first check at which no tracked request
\* is pending and the quiet period is over, or at which the maximum wait
\* is over; when it resolves, its listeners are removed.
NetworkWaitResolves ==
    /\ [][(netPc = "waiting" /\ now = nextCheck
            /\ (\/ (pendingRequests = {}
                      /\ now - lastActivity >= NetworkIdleTime)
                  \/ now - startTime > MaxWaitTime)
            /\ <<nextCheck, netPc>>' # <<nextCheck, netPc>>)
           => netPc' = "resolved"]_vars
    /\ [][(netPc = "waiting" /\ netPc' = "resolved")
           => /\ ~listening'
              /\ \/ (pendingRequests = {}
                        /\ now - lastActivity >= NetworkIdleTime)
                 \/ now - startTime > MaxWaitTime]_vars
    /\ [](netPc = "waiting" => now - startTime <= MaxWaitTime + 1)
    /\ [](netPc = "resolved" => ~listening)
    /\ (netPc = "waiting") ~> (netPc = "resolved")

\* The wait resolved at the end of the maximum wait with a tracked request
\* still pending.
NetworkWaitResolvesWitness ==
    /\ netPc = "resolved"
    /\ ~listening
    /\ Unanswered


-----------------------------------------------------------------------------
\* C34: the metadata of a history entry records the step's values in the
\* right fields: start and end time of the step, the token total at the
\* LLM call, and the agent's step counter.
MetadataFields ==
    HasReturned("makeMetadata") =>
        /\ returned[1].stepStartTime = call.stepStartTime
        /\ returned[1].stepEndTime = call.stepEndTime
        /\ returned[1].inputTokens = call.tokens
        /\ returned[1].stepNumber = call.nSteps


\* C35: in raw mode every response made of an optional fenced code block,
\* with or without a language tag, around optional think blocks (or text
\* ended by a stray closing think tag) followed by a valid JSON object is
\* parsed to that object, and every response without a valid JSON object
\* raises 'Could not parse response.'.
RawResponseParsed ==
    HasReturned("parseRaw") =>
        IF call.json # << >>
        THEN ~returned[1].threw /\ returned[1].value = call.json[1]
        ELSE /\ returned[1].threw
             /\ returned[1].message = "Could not parse response."


-----------------------------------------------------------------------------
\* C36: the done-only output schema is used for an LLM call if and only if
\* the call belongs to a step flagged as last step; the steps of a later
\* run() use the normal schema again.
DoneSchemaOnlyInLastStep ==
    pc = "llm" => (outputSchema = "DoneAgentOutput" <=> cur.lastStep)

-----------------------------------------------------------------------------
\* The last action the step that just ended executed.
LastExecuted == actions[Len(Last(entries).result)]

\* C37: among the registered actions only done returns a result with
\* isDone = true: a step's history entry ends with a done result, which
\* makes run() end with the task completed, only when the last action the
\* step executed was done.
OnlyDoneCompletes == EndedWithDone => LastExecuted = "done"

-----------------------------------------------------------------------------
\* C38: trimMessages terminates for every history and every token limit,
\* also when the messages that cannot be evicted (the system message)
\* alone exceed the limit: no call of it is left in its loop.
TrimMessagesTerminates == lastOp.name = "trimMessages" => ~lastOp.hung

-----------------------------------------------------------------------------
\* C39: whenever cutMessages returns without throwing, currentTokens is at
\* most maxInputTokens, for a last message of any role and with string or
\* list content.
CutMessagesFits ==
    lastOp.name = "cutMessages" /\ ~lastOp.threw
        => history.currentTokens <= maxInputTokens

(***************************************************************************)
(* The MessageManager constructor over a MessageManagerState, and the      *)
(* calls that use the state's toolId.                                      *)
(***************************************************************************)
MaxStateCalls == 4

\* _initMessages on a state without messages: the seed messages; the tool
\* message 'Browser started' takes one toolId.
InitState(state, cfg) ==
    [history |-> InitMessages(cfg), toolId |-> state.toolId + 1]

\* A constructor that seeds whatever the history holds
ConstructorSeeding(state, cfg) == InitState(state, cfg)

\* new MessageManager(task, systemMessage, settings, state): the state it
\* leaves.
Constructor(state, cfg) ==
    IF Len(state.history.messages) = 0 THEN InitState(state, cfg) ELSE state

\* MessageManager.addToolMessage(content)
AddToolMessage(state, len) ==
    [history |-> AddMessageWithTokens(state.history,
                                      Message("tool", "toolack", len),
                                      NoPosition),
     toolId |-> state.toolId + 1]

\* MessageManager.addModelOutput(modelOutput): the tool call, then
\* addToolMessage('').
AddModelOutputTo(state, argLen) ==
    AddToolMessage(
        [state EXCEPT !.history =
            AddMessageWithTokens(@, ToolCallMessage("output", argLen),
                                 NoPosition)],
        0)

StateInit ==
    /\ ProgramIdle
    /\ SecretsIdle
    /\ DomIdle
    /\ CallsIdle
    /\ BrowserIdle
    /\ managerState = NewState
    /\ constructed = << >>
    /\ stateCalls = 0

\* A MessageManager is constructed over the state object (a first
\* construction, or a resumption over the state of an earlier manager).
NewMessageManager ==
    /\ stateCalls < MaxStateCalls
    /\ \E cfg \in Configs :
          /\ managerState' = Constructor(managerState, cfg)
          /\ constructed' = <<[given |-> managerState,
                               left |-> managerState']>>
    /\ stateCalls' = stateCalls + 1
    /\ UNCHANGED <<mmVars, agentVars, secretVars, domVars, callVars, ctxVars,
                   netVars>>

CallAddToolMessage ==
    /\ stateCalls < MaxStateCalls
    /\ \E len \in {0, BrowserStartedLen} :
          managerState' = AddToolMessage(managerState, len)
    /\ stateCalls' = stateCalls + 1
    /\ UNCHANGED <<constructed, mmVars, agentVars, secretVars, domVars,
                   callVars, ctxVars, netVars>>

CallAddModelOutput ==
    /\ stateCalls < MaxStateCalls
    /\ managerState' = AddModelOutputTo(managerState, ExampleArgsLen)
    /\ stateCalls' = stateCalls + 1
    /\ UNCHANGED <<constructed, mmVars, agentVars, secretVars, domVars,
                   callVars, ctxVars, netVars>>

StateNext ==
    \/ NewMessageManager
    \/ CallAddToolMessage
    \/ CallAddModelOutput

SpecState == StateInit /\ [][StateNext]_vars

\* C40: constructing a MessageManager over an injected state whose history
\* is not empty leaves the messages, their order, currentTokens and toolId
\* unchanged; the seed messages are added only when the history is empty.
InjectedHistoryKept ==
    constructed # << >> =>
        LET given == constructed[1].given
            left == constructed[1].left
        IN IF given.history.messages # << >>
           THEN left = given
           ELSE \E cfg \in Configs : left.history = InitMessages(cfg)

\* A manager was constructed over the state of an earlier manager, which
\* had added a model output to its seeded history.
InjectedHistoryKeptWitness ==
    /\ constructed # << >>
    /\ constructed[1].given.toolId > 2
    /\ Len(constructed[1].given.history.messages) > 6
    /\ constructed[1].left = constructed[1].given

====
